---- MODULE Spec2Model ----
(***************************************************************************)
(* Directional-change trading pipeline: the DC detector (DCIndicator), the *)
(* market-data processor that drives it, the strategy engine, the          *)
(* execution engine and the transport between them, and the checks of the  *)
(* specification's statements about them.                                  *)
(*                                                                         *)
(* A C++ double is modelled as an exact value: a rational n/d in lowest    *)
(* terms (c = "fin"), an infinity (c = "inf", n = +1 or -1) or NaN         *)
(* (c = "nan").  Arithmetic and comparisons follow IEEE-754 on the special *)
(* values; rounding of finite results and the sign of zero are not         *)
(* modelled.                                                               *)
(***************************************************************************)
EXTENDS Integers, Sequences, FiniteSets, TLC

VARIABLES
    dc,        \* the DCIndicator object (its private fields)
    ret,       \* the DCEvent returned by the last processDataPoint call
    tick,      \* the MarketDataPoint passed to the last processDataPoint call
    events,    \* history: <<tick number, event>> of every event emitted since construction / reset()
    hist,      \* history of the tick stream fed since construction / reset()
    run,       \* which tick stream this run feeds: "free" or the name of a scripted scenario
    script,    \* the ticks of the scripted scenario still to be fed
    fresh,     \* a second detector, constructed anew (same theta) whenever dc is reset
    fevents,   \* history: the events fresh has emitted
    tickLane,    \* the fragments waiting on the market-data processor's input subscription
    signalLane,  \* the fragments waiting on the strategy engine's input subscription
    statistics,  \* MarketDataProcessor::statistics_
    arrived,     \* history: the number of fragments that have arrived on tickLane
    mdpTrace,    \* history: what the last processMarketData call did
    se,          \* the StrategyEngine object (its parameters and statistics_)
    orderLane,   \* the fragments waiting on the execution engine's input subscription
    seTrace,     \* history: what the last processDCSignal call did
    ee,          \* the ExecutionEngine object, with the static last_price of calculatePnL
    eeTrace,     \* history: what the last processOrder call did, and the trade_pnl of each filled trade
    mock,        \* a Publication and a Subscription of the mock transport on one (channel, stream id)
    thr          \* the threads of the run: where each stands, the locks and flags they share

detVars == <<dc, ret, tick, events, hist, fresh, fevents>>
mdpVars == <<tickLane, signalLane, statistics, arrived, mdpTrace>>
stageVars == <<se, orderLane, seTrace, ee, eeTrace, mock>>
vars == <<dc, ret, tick, events, hist, run, script, fresh, fevents,
          tickLane, signalLane, statistics, arrived, mdpTrace,
          se, orderLane, seTrace, ee, eeTrace, mock, thr>>

----------------------------------------------------------------------------
(* double arithmetic *)

RECURSIVE GCD(_, _)
GCD(a, b) == IF b = 0 THEN a ELSE GCD(b, a % b)

Abs(x) == IF x < 0 THEN -x ELSE x

Sgn(x) == IF x < 0 THEN -1 ELSE IF x > 0 THEN 1 ELSE 0

Fin(n, d) ==
    LET s == IF d < 0 THEN -1 ELSE 1
        g == GCD(Abs(n), Abs(d))
    IN  [c |-> "fin", n |-> (s * n) \div g, d |-> (s * d) \div g]

NaN == [c |-> "nan", n |-> 0, d |-> 1]

Inf(s) == [c |-> "inf", n |-> s, d |-> 1]

isnan(x) == x.c = "nan"

isfinite(x) == x.c = "fin"

DNeg(x) == IF x.c = "nan" THEN NaN ELSE [x EXCEPT !.n = -x.n]

DAdd(x, y) ==
    IF x.c = "nan" \/ y.c = "nan" THEN NaN
    ELSE IF x.c = "inf" /\ y.c = "inf" THEN (IF x.n = y.n THEN x ELSE NaN)
    ELSE IF x.c = "inf" THEN x
    ELSE IF y.c = "inf" THEN y
    ELSE LET g == GCD(x.d, y.d)
         IN  Fin(x.n * (y.d \div g) + y.n * (x.d \div g), (x.d \div g) * y.d)

DSub(x, y) == DAdd(x, DNeg(y))

DMul(x, y) ==
    IF x.c = "nan" \/ y.c = "nan" THEN NaN
    ELSE IF x.c = "inf" \/ y.c = "inf"
         THEN (IF x.n = 0 \/ y.n = 0 THEN NaN ELSE Inf(Sgn(x.n) * Sgn(y.n)))
    ELSE LET g1 == GCD(Abs(x.n), y.d)
             g2 == GCD(Abs(y.n), x.d)
         IN  Fin((x.n \div g1) * (y.n \div g2), (x.d \div g2) * (y.d \div g1))

DDiv(x, y) ==
    IF x.c = "nan" \/ y.c = "nan" THEN NaN
    ELSE IF y.c = "inf" THEN (IF x.c = "inf" THEN NaN ELSE Fin(0, 1))
    ELSE IF y.n = 0 THEN (IF x.n = 0 THEN NaN ELSE Inf(Sgn(x.n)))
    ELSE DMul(x, [c |-> "fin", n |-> Sgn(y.n) * y.d, d |-> Abs(y.n)])

DAbs(x) == IF x.c = "nan" THEN NaN ELSE [x EXCEPT !.n = Abs(x.n)]

\* n1/d1 < n2/d2 for d1, d2 > 0, by integer parts and then the inverted
\* remainders, so that no product is formed
RECURSIVE RatLt(_, _, _, _)
RatLt(n1, d1, n2, d2) ==
    LET q1 == n1 \div d1
        q2 == n2 \div d2
        r1 == n1 % d1
        r2 == n2 % d2
    IN  IF q1 # q2 THEN q1 < q2
        ELSE IF r2 = 0 THEN FALSE
        ELSE IF r1 = 0 THEN TRUE
        ELSE RatLt(d2, r2, d1, r1)

\* x < y on doubles; false when either is NaN
DLt(x, y) ==
    /\ x.c # "nan" /\ y.c # "nan"
    /\ IF x.c = "inf" THEN x.n < 0 /\ ~(y.c = "inf" /\ y.n < 0)
       ELSE IF y.c = "inf" THEN y.n > 0
       ELSE RatLt(x.n, x.d, y.n, y.d)

DGt(x, y) == DLt(y, x)

DEq(x, y) == x.c # "nan" /\ y.c # "nan" /\ x = y

DGe(x, y) == DGt(x, y) \/ DEq(x, y)

DLe(x, y) == DLt(x, y) \/ DEq(x, y)

Zero == Fin(0, 1)

\* an integer (std::int64_t) converted to double
ToDouble(i) == Fin(i, 1)

----------------------------------------------------------------------------
(* DCIndicator *)

NONE == "NONE"
UPTURN == "UPTURN"
DOWNTURN == "DOWNTURN"

\* DCEvent::DCEvent()
DCEvent ==
    [type |-> NONE, timestamp |-> 0, price |-> Zero, tmv_ext |-> Zero,
     duration |-> 0, time_adjusted_return |-> Zero]

\* MarketDataPoint(ts, p)
MarketDataPoint(ts, p) == [timestamp |-> ts, price |-> p]

\* DCIndicator::DCIndicator(theta)
DCIndicator(theta) ==
    [theta_ |-> theta,
     current_trend_ |-> 0,
     extreme_price_ |-> NaN,
     extreme_timestamp_ |-> 0,
     last_dc_price_ |-> NaN,
     last_dc_timestamp_ |-> 0,
     last_dc_event_ |-> DCEvent]

\* mutant: the signed extent, without std::abs
calculateTMV_signed(theta, current_price, previous_extreme) ==
    IF isnan(previous_extreme) \/ DEq(previous_extreme, Zero) THEN Zero
    ELSE DDiv(DSub(current_price, previous_extreme),
              DMul(previous_extreme, theta))

calculateTMV(theta, current_price, previous_extreme) ==
    IF isnan(previous_extreme) \/ DEq(previous_extreme, Zero) THEN Zero
    ELSE DDiv(DAbs(DSub(current_price, previous_extreme)),
              DMul(previous_extreme, theta))

\* mutant: the operands swapped
calculateDuration_swapped(current_time, previous_time) == previous_time - current_time

calculateDuration(current_time, previous_time) == current_time - previous_time

\* mutant: no test of the duration
calculateTimeAdjustedReturn_anyDuration(theta, tmv, duration) ==
    LET duration_seconds == DDiv(ToDouble(duration), ToDouble(1000000000))
    IN  DMul(DDiv(tmv, duration_seconds), theta)

calculateTimeAdjustedReturn(theta, tmv, duration) ==
    IF duration <= 0 THEN Zero
    ELSE LET duration_seconds == DDiv(ToDouble(duration), ToDouble(1000000000))
         IN  DMul(DDiv(tmv, duration_seconds), theta)

\* mutant: > in place of >=
isUpwardDC_strict(theta, current_price, extreme_price) ==
    IF isnan(extreme_price) THEN FALSE
    ELSE DGt(DDiv(DSub(current_price, extreme_price), extreme_price), theta)

isUpwardDC(theta, current_price, extreme_price) ==
    IF isnan(extreme_price) THEN FALSE
    ELSE DGe(DDiv(DSub(current_price, extreme_price), extreme_price), theta)

\* mutant: > in place of >=
isDownwardDC_strict(theta, current_price, extreme_price) ==
    IF isnan(extreme_price) THEN FALSE
    ELSE DGt(DDiv(DSub(extreme_price, current_price), extreme_price), theta)

\* mutant: the change taken relative to the current price
isDownwardDC_divByCurrent(theta, current_price, extreme_price) ==
    IF isnan(extreme_price) THEN FALSE
    ELSE DGe(DDiv(DSub(extreme_price, current_price), current_price), theta)

isDownwardDC(theta, current_price, extreme_price) ==
    IF isnan(extreme_price) THEN FALSE
    ELSE DGe(DDiv(DSub(extreme_price, current_price), extreme_price), theta)

\* mutant: a new extreme keeps the old extreme's timestamp
updateExtreme_noTimestamp(d, data_point) ==
    LET newExt == IF d.current_trend_ >= 0
                  THEN DGt(data_point.price, d.extreme_price_)
                  ELSE DLt(data_point.price, d.extreme_price_)
    IN  IF newExt THEN [d EXCEPT !.extreme_price_ = data_point.price] ELSE d

\* mutant: a new low in a downtrend is not taken as the extreme
updateExtreme_highsOnly(d, data_point) ==
    LET newExt == d.current_trend_ >= 0 /\ DGt(data_point.price, d.extreme_price_)
    IN  IF newExt
        THEN [d EXCEPT !.extreme_price_ = data_point.price,
                       !.extreme_timestamp_ = data_point.timestamp]
        ELSE d

\* the running extreme after the "update extreme" step of processDataPoint
updateExtreme(d, data_point) ==
    LET newExt == IF d.current_trend_ >= 0
                  THEN DGt(data_point.price, d.extreme_price_)
                  ELSE DLt(data_point.price, d.extreme_price_)
    IN  IF newExt
        THEN [d EXCEPT !.extreme_price_ = data_point.price,
                       !.extreme_timestamp_ = data_point.timestamp]
        ELSE d

\* mutant: the running extreme is not reseeded to the current tick
buildEvent_noReseed(d, data_point, type) ==
    LET tmv == calculateTMV(d.theta_, data_point.price, d.extreme_price_)
        dur == calculateDuration(d.extreme_timestamp_, d.last_dc_timestamp_)
        event == [type |-> type,
                  timestamp |-> data_point.timestamp,
                  price |-> data_point.price,
                  tmv_ext |-> tmv,
                  duration |-> dur,
                  time_adjusted_return |-> calculateTimeAdjustedReturn(d.theta_, tmv, dur)]
    IN  [dc |-> [d EXCEPT !.current_trend_ = IF type = DOWNTURN THEN -1 ELSE 1,
                          !.last_dc_price_ = d.extreme_price_,
                          !.last_dc_timestamp_ = d.extreme_timestamp_,
                          !.last_dc_event_ = event],
         event |-> event]

\* mutant: the trend is set to up after every event
buildEvent_alwaysUp(d, data_point, type) ==
    LET tmv == calculateTMV(d.theta_, data_point.price, d.extreme_price_)
        dur == calculateDuration(d.extreme_timestamp_, d.last_dc_timestamp_)
        event == [type |-> type,
                  timestamp |-> data_point.timestamp,
                  price |-> data_point.price,
                  tmv_ext |-> tmv,
                  duration |-> dur,
                  time_adjusted_return |-> calculateTimeAdjustedReturn(d.theta_, tmv, dur)]
    IN  [dc |-> [d EXCEPT !.current_trend_ = 1,
                          !.last_dc_price_ = d.extreme_price_,
                          !.last_dc_timestamp_ = d.extreme_timestamp_,
                          !.extreme_price_ = data_point.price,
                          !.extreme_timestamp_ = data_point.timestamp,
                          !.last_dc_event_ = event],
         event |-> event]

\* mutant: the closed extreme is not moved to the previous extreme
buildEvent_keepPrevious(d, data_point, type) ==
    LET tmv == calculateTMV(d.theta_, data_point.price, d.extreme_price_)
        dur == calculateDuration(d.extreme_timestamp_, d.last_dc_timestamp_)
        event == [type |-> type,
                  timestamp |-> data_point.timestamp,
                  price |-> data_point.price,
                  tmv_ext |-> tmv,
                  duration |-> dur,
                  time_adjusted_return |-> calculateTimeAdjustedReturn(d.theta_, tmv, dur)]
    IN  [dc |-> [d EXCEPT !.current_trend_ = IF type = DOWNTURN THEN -1 ELSE 1,
                          !.extreme_price_ = data_point.price,
                          !.extreme_timestamp_ = data_point.timestamp,
                          !.last_dc_event_ = event],
         event |-> event]

\* the "if (dc_detected)" block: the event's fields and the rotation of the state
buildEvent(d, data_point, type) ==
    LET tmv == calculateTMV(d.theta_, data_point.price, d.extreme_price_)
        dur == calculateDuration(d.extreme_timestamp_, d.last_dc_timestamp_)
        event == [type |-> type,
                  timestamp |-> data_point.timestamp,
                  price |-> data_point.price,
                  tmv_ext |-> tmv,
                  duration |-> dur,
                  time_adjusted_return |-> calculateTimeAdjustedReturn(d.theta_, tmv, dur)]
    IN  [dc |-> [d EXCEPT !.current_trend_ = IF type = DOWNTURN THEN -1 ELSE 1,
                          !.last_dc_price_ = d.extreme_price_,
                          !.last_dc_timestamp_ = d.extreme_timestamp_,
                          !.extreme_price_ = data_point.price,
                          !.extreme_timestamp_ = data_point.timestamp,
                          !.last_dc_event_ = event],
         event |-> event]

\* DCIndicator::processDataPoint: the new object state and the returned event
processDataPoint(d, data_point) ==
    IF isnan(d.extreme_price_)
    THEN [dc |-> [d EXCEPT !.extreme_price_ = data_point.price,
                           !.extreme_timestamp_ = data_point.timestamp,
                           !.last_dc_price_ = data_point.price,
                           !.last_dc_timestamp_ = data_point.timestamp],
          event |-> DCEvent]
    ELSE LET u == updateExtreme(d, data_point)
         IN  IF d.current_trend_ >= 0
             THEN IF isDownwardDC(u.theta_, data_point.price, u.extreme_price_)
                  THEN buildEvent(u, data_point, DOWNTURN)
                  ELSE [dc |-> u, event |-> DCEvent]
             ELSE IF isUpwardDC(u.theta_, data_point.price, u.extreme_price_)
                  THEN buildEvent(u, data_point, UPTURN)
                  ELSE [dc |-> u, event |-> DCEvent]

\* mutant: the trend is not cleared
reset_keepTrend(d) ==
    [d EXCEPT !.extreme_price_ = NaN,
              !.extreme_timestamp_ = 0,
              !.last_dc_price_ = NaN,
              !.last_dc_timestamp_ = 0,
              !.last_dc_event_ = DCEvent]

\* DCIndicator::reset
reset(d) ==
    [d EXCEPT !.current_trend_ = 0,
              !.extreme_price_ = NaN,
              !.extreme_timestamp_ = 0,
              !.last_dc_price_ = NaN,
              !.last_dc_timestamp_ = 0,
              !.last_dc_event_ = DCEvent]

----------------------------------------------------------------------------
(* The tick streams fed to a detector *)

MaxTicks == 4

TsUnit == 1000 * 1000

Px(n) == Fin(n, 1)

Theta001 == Fin(1, 100)
Theta002 == Fin(1, 50)
Theta0004 == Fin(4, 1000)

Thetas == {Theta001, Theta002, Zero}

Prices == {Px(99), Px(100), Px(101), Px(102)}
\* timestamp steps between consecutive ticks, in TsUnit; the first tick of a run
\* is stamped TsUnit (the epoch is arbitrary)
Deltas == {-1, 0, 1}

PosFinite(x) == isfinite(x) /\ DGt(x, Zero)

DMax(x, y) == IF isnan(x) THEN y ELSE IF DGt(y, x) THEN y ELSE x

\* a tick lies theta or more (relatively) below the running maximum m
LiesBelow(theta, m, p) == DGe(DDiv(DSub(m, p), m), theta)

HistInit ==
    [nticks |-> 0, total |-> 0, prior |-> 0, lastTs |-> 0, tsMono |-> TRUE,
     runMax |-> NaN, noDrop |-> TRUE]

HistNext(h, theta, dp) ==
    LET m == DMax(h.runMax, dp.price)
    IN  [nticks |-> h.nticks + 1,
         total |-> h.total + 1,
         prior |-> h.prior,
         lastTs |-> dp.timestamp,
         tsMono |-> h.tsMono /\ (h.nticks = 0 \/ dp.timestamp >= h.lastTs),
         runMax |-> m,
         noDrop |-> h.noDrop /\ ~LiesBelow(theta, m, dp.price)]

\* the tick streams of the end-to-end scenarios: prices, stamped i * 10^6 ns
ScenarioPrices(name) ==
    CASE name = "A" -> <<Px(100), Px(101), Px(102), Px(103), Fin(1015, 10)>>
      [] name = "B" -> <<Px(100), Px(99), Px(98), Px(97), Fin(985, 10)>>
      [] name \in {"C", "C004"} ->
              <<Px(100), Fin(1005, 10), Px(101), Fin(1008, 10), Fin(1012, 10),
                Fin(1018, 10), Fin(1015, 10), Px(102)>>
      [] name = "D" -> <<Px(100), Px(102), Fin(1008, 10), Fin(1025, 10), Fin(1012, 10)>>

ScenarioTheta(name) == IF name = "C004" THEN Theta0004 ELSE Theta001

Scenarios == {"A", "B", "C", "C004", "D"}

ScenarioTicks(name) ==
    [i \in 1..Len(ScenarioPrices(name)) |->
        MarketDataPoint((i - 1) * TsUnit, ScenarioPrices(name)[i])]

\* the effect of one call dc.processDataPoint(dp) that returned r, with the
\* histories it extends; the second detector is fed the same tick
Observe(r, dp) ==
    LET f == processDataPoint(fresh, dp)
    IN  /\ dc' = r.dc
        /\ ret' = r.event
        /\ tick' = dp
        /\ events' = IF r.event.type # NONE
                     THEN Append(events, <<hist.nticks + 1, r.event>>)
                     ELSE events
        /\ hist' = HistNext(hist, dc.theta_, dp)
        /\ fresh' = f.dc
        /\ fevents' = IF f.event.type # NONE
                      THEN Append(fevents, <<hist.nticks + 1, f.event>>)
                      ELSE fevents

FeedTick(dp) == Observe(processDataPoint(dc, dp), dp)

MdpTraceInit ==
    [length |-> 0, calls |-> 0, offers |-> 0, accepted |-> 0, kind |-> NONE,
     result |-> "", dropped |-> 0, afterDrop |-> 0]

StatisticsInit == [messages_processed |-> 0, dc_events_detected |-> 0]

\* no thread is modelled: every handler call runs alone, from start to end
NoThreads == [worker |-> "none"]

MdpIdle ==
    /\ tickLane = << >>
    /\ signalLane = << >>
    /\ statistics = StatisticsInit
    /\ arrived = 0
    /\ mdpTrace = MdpTraceInit

\* SignalType
BUY == "BUY"
SELL == "SELL"
HOLD == "HOLD"

\* MarketState
UNKNOWN == "UNKNOWN"
LOW_VOLATILITY == "LOW_VOLATILITY"
HIGH_VOLATILITY == "HIGH_VOLATILITY"

\* StrategyEngine::StrategyEngine
StrategyEngine ==
    [hmm_enabled_ |-> FALSE,
     leverage_factor_ |-> Px(1),
     current_market_state_ |-> UNKNOWN,
     statistics_ |-> [signals_processed |-> 0, orders_generated |-> 0,
                      buy_signals |-> 0, sell_signals |-> 0,
                      current_market_state |-> UNKNOWN]]

\* ExecutionStatus
PENDING == "PENDING"
FILLED == "FILLED"

\* the performance_metrics_ of a new or reset engine
PerformanceMetrics ==
    [total_pnl |-> Zero, win_rate |-> Zero, total_trades |-> 0, winning_trades |-> 0,
     losing_trades |-> 0, max_drawdown |-> Zero, avg_trade_pnl |-> Zero]

\* ExecutionEngine::ExecutionEngine; the static last_price of calculatePnL is
\* initialized by the first call of calculatePnL in the process
ExecutionEngine ==
    [simulation_mode_ |-> TRUE,
     initial_capital_ |-> Px(100000),
     current_capital_ |-> Px(100000),
     current_position_ |-> Zero,
     order_counter_ |-> 0,
     peak_capital_ |-> Px(100000),
     performance_metrics_ |-> PerformanceMetrics,
     trade_history_ |-> << >>,
     daily_returns_ |-> << >>,
     last_price_initialized |-> FALSE,
     last_price |-> Zero]

\* the stages after construction, nothing received; seTrace and eeTrace start
\* empty, eeTrace.book being the position book of the position-aware P&L rule
StagesIdle ==
    /\ se = StrategyEngine
    /\ orderLane = << >>
    /\ seTrace = [inputs |-> 0, length |-> 0, kind |-> NONE, signal |-> NONE,
                  tar |-> Zero, price |-> Zero, quantity |-> Zero,
                  offers |-> 0, accepted |-> 0, result |-> "", dropped |-> 0,
                  afterDrop |-> 0]
    /\ ee = ExecutionEngine
    /\ eeTrace = [inputs |-> 0, length |-> 0, status |-> PENDING, signal |-> NONE,
                  executed_price |-> Zero, executed_quantity |-> Zero,
                  trade_pnl |-> Zero, pnls |-> << >>,
                  book |-> [position_qty |-> Zero, avg_entry_price |-> Zero],
                  bookBefore |-> [position_qty |-> Zero, avg_entry_price |-> Zero],
                  resets |-> 0]
    /\ mock = [offered |-> << >>, messageQueue |-> << >>, delivered |-> << >>]

Init ==
    /\ MdpIdle
    /\ thr = NoThreads
    /\ StagesIdle
    /\ \/ /\ run = "free"
          /\ script = << >>
          /\ dc \in {DCIndicator(th) : th \in Thetas}
       \/ /\ run \in Scenarios
          /\ script = ScenarioTicks(run)
          /\ dc = DCIndicator(ScenarioTheta(run))
    /\ fresh = dc
    /\ ret = DCEvent
    /\ tick = MarketDataPoint(0, NaN)
    /\ events = << >>
    /\ fevents = << >>
    /\ hist = HistInit

\* the caller feeds a tick of its choice
Tick ==
    /\ run = "free"
    /\ hist.total < MaxTicks
    /\ \E p \in Prices, dt \in (IF hist.total = 0 THEN {1} ELSE Deltas) :
          FeedTick(MarketDataPoint(hist.lastTs + dt * TsUnit, p))
    /\ UNCHANGED <<run, script, thr>>
    /\ UNCHANGED mdpVars
    /\ UNCHANGED stageVars

\* the caller feeds the next tick of the scenario
FeedScript ==
    /\ script # << >>
    /\ FeedTick(Head(script))
    /\ script' = Tail(script)
    /\ UNCHANGED <<run, thr>>
    /\ UNCHANGED mdpVars
    /\ UNCHANGED stageVars

\* the caller calls dc.reset()
Reset ==
    /\ dc' = reset(dc)
    /\ events' = << >>
    /\ hist' = [HistInit EXCEPT !.total = hist.total, !.lastTs = hist.lastTs,
                                !.prior = hist.prior + Len(events)]
    /\ fresh' = DCIndicator(dc.theta_)
    /\ fevents' = << >>
    /\ UNCHANGED <<ret, tick, run, script, thr>>
    /\ UNCHANGED mdpVars
    /\ UNCHANGED stageVars

Next == Tick \/ FeedScript \/ Reset

Spec == Init /\ [][Next]_vars

----------------------------------------------------------------------------
(* The detector fed ticks of any price, finite or not *)

AnyPrices == {Px(99), Px(100), Px(101), NaN, Inf(1), Inf(-1)}

InitAnyPrice ==
    /\ MdpIdle
    /\ thr = NoThreads
    /\ StagesIdle
    /\ run = "anyprice"
    /\ script = << >>
    /\ dc = DCIndicator(Theta001)
    /\ fresh = dc
    /\ ret = DCEvent
    /\ tick = MarketDataPoint(0, NaN)
    /\ events = << >>
    /\ fevents = << >>
    /\ hist = HistInit

\* the caller feeds a tick whose price is any double
TickAnyPrice ==
    /\ run = "anyprice"
    /\ hist.total < MaxTicks
    /\ \E p \in AnyPrices :
          FeedTick(MarketDataPoint(hist.lastTs + TsUnit, p))
    /\ UNCHANGED <<run, script, thr>>
    /\ UNCHANGED mdpVars
    /\ UNCHANGED stageVars

SpecAnyPrice == InitAnyPrice /\ [][TickAnyPrice]_vars

----------------------------------------------------------------------------
(* MarketDataProcessor *)

\* sizeof(MarketDataMessage): int64 timestamp, double price, double volume, char symbol[16]
MarketDataMessageSize == 40

\* sizeof(DCSignalMessage): int64 timestamp, DCEventType event_type (4 bytes and 4
\* of padding), double price, double tmv_ext, int64 duration,
\* double time_adjusted_return, char symbol[16]
DCSignalMessageSize == 64

\* the results of Publication::offer: a new stream position (> 0) or an error code
OfferResults == {"POSITION", "BACK_PRESSURED", "NOT_CONNECTED", "CLOSED"}

MdpPrices == {Px(99), Px(100), Px(101)}

MarketDataMessage(ts, p) == [timestamp |-> ts, price |-> p]

DCSignalMessage(dc_event) ==
    [timestamp |-> dc_event.timestamp,
     event_type |-> dc_event.type,
     price |-> dc_event.price,
     tmv_ext |-> dc_event.tmv_ext,
     duration |-> dc_event.duration,
     time_adjusted_return |-> dc_event.time_adjusted_return]

\* mutant: the offer is repeated until the publication takes the message
publishDCSignal_retry(dc_event, result) ==
    [msg |-> DCSignalMessage(dc_event), accepted |-> TRUE]

\* MarketDataProcessor::publishDCSignal: the one offer it makes, and whether the
\* publication took the message
publishDCSignal(dc_event, result) ==
    [msg |-> DCSignalMessage(dc_event), accepted |-> result = "POSITION"]

\* mutant: a NONE event is published too
mustPublish_always(dc_event) == TRUE

\* the test "dc_event.type != DCEventType::NONE" of processMarketData
mustPublish(dc_event) == dc_event.type # NONE

\* MarketDataProcessor::processMarketData on one fragment: the statistics, the
\* results of the processDataPoint calls it made and the offers it made
processMarketData(stats, d, frag, result) ==
    IF frag.length < MarketDataMessageSize
    THEN [statistics |-> stats, detections |-> << >>, offers |-> << >>]
    ELSE LET data_point == MarketDataPoint(frag.msg.timestamp, frag.msg.price)
             r == processDataPoint(d, data_point)
             s1 == [stats EXCEPT !.messages_processed = @ + 1]
         IN  IF mustPublish(r.event)
             THEN [statistics |-> [s1 EXCEPT !.dc_events_detected = @ + 1],
                   detections |-> <<r>>,
                   offers |-> <<publishDCSignal(r.event, result)>>]
             ELSE [statistics |-> s1, detections |-> <<r>>, offers |-> << >>]

\* MarketDataProcessor::MarketDataProcessor
InitMDP ==
    /\ MdpIdle
    /\ thr = NoThreads
    /\ StagesIdle
    /\ run = "mdp"
    /\ script = << >>
    /\ dc = DCIndicator(Theta0004)
    /\ fresh = dc
    /\ ret = DCEvent
    /\ tick = MarketDataPoint(0, NaN)
    /\ events = << >>
    /\ fevents = << >>
    /\ hist = HistInit

\* a fragment arrives on the input subscription: a tick record, or a short fragment
TickArrives ==
    /\ run \in {"mdp", "theta"}
    /\ arrived < MaxTicks
    /\ arrived' = arrived + 1
    /\ \E frag \in {[length |-> MarketDataMessageSize,
                     msg |-> MarketDataMessage(arrived' * TsUnit, p)] : p \in MdpPrices}
                   \cup {[length |-> MarketDataMessageSize - 8,
                          msg |-> MarketDataMessage(0, Zero)]} :
          tickLane' = Append(tickLane, frag)
    /\ UNCHANGED <<signalLane, statistics, mdpTrace, run, script, thr>>
    /\ UNCHANGED detVars
    /\ UNCHANGED stageVars

\* the poll delivers the next fragment to processMarketData
ProcessMarketData ==
    /\ tickLane # << >>
    /\ \E result \in (IF run = "pipeline" THEN {"POSITION"} ELSE OfferResults) :
       \E out \in {processMarketData(statistics, dc, Head(tickLane), result)} :
          LET frag == Head(tickLane)
              took == SelectSeq(out.offers, LAMBDA o : o.accepted)
          IN  /\ tickLane' = Tail(tickLane)
              /\ statistics' = out.statistics
              /\ signalLane' = signalLane \o
                     [i \in 1..Len(took) |->
                         [length |-> DCSignalMessageSize, msg |-> took[i].msg]]
              /\ mdpTrace' = [length |-> frag.length,
                              calls |-> Len(out.detections),
                              offers |-> Len(out.offers),
                              accepted |-> Len(took),
                              kind |-> IF out.detections = << >> THEN NONE
                                       ELSE out.detections[1].event.type,
                              result |-> IF out.offers = << >> THEN "" ELSE result,
                              dropped |-> mdpTrace.dropped + (Len(out.offers) - Len(took)),
                              afterDrop |-> IF mdpTrace.dropped > 0 /\ out.detections # << >>
                                            THEN mdpTrace.afterDrop + 1
                                            ELSE mdpTrace.afterDrop]
              /\ IF out.detections = << >>
                 THEN UNCHANGED detVars
                 ELSE Observe(out.detections[1],
                              MarketDataPoint(frag.msg.timestamp, frag.msg.price))
    /\ UNCHANGED <<arrived, run, script, thr>>
    /\ UNCHANGED stageVars

NextMDP == TickArrives \/ ProcessMarketData

SpecMDP == InitMDP /\ [][NextMDP]_vars

----------------------------------------------------------------------------
(* StrategyEngine *)

\* sizeof(TradingOrder): int64 timestamp, SignalType signal (4 bytes and 4 of
\* padding), double price, double quantity, char symbol[16],
\* int64 strategy_latency_ns
TradingOrderSize == 56

MaxSignals == 2

\* mutant: the time-adjusted return is not consulted
generateTradingSignal_anyReturn(dc_signal) ==
    CASE dc_signal.event_type = UPTURN -> BUY
      [] dc_signal.event_type = DOWNTURN -> SELL
      [] OTHER -> NONE

\* StrategyEngine::generateTradingSignal
generateTradingSignal(dc_signal) ==
    CASE dc_signal.event_type = UPTURN ->
            IF DGt(dc_signal.time_adjusted_return, Zero) THEN BUY ELSE NONE
      [] dc_signal.event_type = DOWNTURN ->
            IF DLt(dc_signal.time_adjusted_return, Zero) THEN SELL ELSE NONE
      [] OTHER -> NONE

\* StrategyEngine::getVolatilityAdjustedLeverage
getVolatilityAdjustedLeverage(s) ==
    CASE s.current_market_state_ = LOW_VOLATILITY -> Fin(3, 2)
      [] s.current_market_state_ = HIGH_VOLATILITY -> Fin(1, 2)
      [] OTHER -> Px(1)

\* StrategyEngine::calculateOrderQuantity; std::min(a, b) is b when b < a and a
\* otherwise, std::max(a, b) is b when a < b and a otherwise
calculateOrderQuantity(s, price) ==
    LET base_quantity == Px(100)
        q1 == DMul(base_quantity, s.leverage_factor_)
        q2 == IF s.hmm_enabled_ THEN DMul(q1, getVolatilityAdjustedLeverage(s)) ELSE q1
        cap == DDiv(Px(10000), price)
        q3 == IF DGt(price, Zero) THEN (IF DLt(cap, q2) THEN cap ELSE q2) ELSE q2
    IN  IF DLt(Px(1), q3) THEN q3 ELSE Px(1)

\* StrategyEngine::updateMarketState
updateMarketState(s, dc_signal) ==
    LET volatility_indicator ==
            DDiv(DAbs(dc_signal.tmv_ext),
                 DDiv(ToDouble(dc_signal.duration), ToDouble(1000000000)))
        new_state == IF DLt(volatility_indicator, Fin(1, 10)) THEN LOW_VOLATILITY
                     ELSE IF DGt(volatility_indicator, Fin(1, 2)) THEN HIGH_VOLATILITY
                     ELSE s.current_market_state_
    IN  [s EXCEPT !.current_market_state_ = new_state,
                  !.statistics_.current_market_state = new_state]

\* the TradingOrder processDCSignal builds; dc_timestamp is history, the timestamp
\* of the DC signal it answers (strategy_latency_ns is the clock reading less it)
TradingOrder(s, dc_signal, trading_signal) ==
    [signal |-> trading_signal,
     price |-> dc_signal.price,
     quantity |-> calculateOrderQuantity(s, dc_signal.price),
     dc_timestamp |-> dc_signal.timestamp]

\* StrategyEngine::processDCSignal on one fragment, publishTradingOrder included:
\* the new object state, the signal computed and the offers made
processDCSignal(s, frag, result) ==
    IF frag.length < DCSignalMessageSize
    THEN [se |-> s, signal |-> NONE, offers |-> << >>]
    ELSE LET s1 == [s EXCEPT !.statistics_.signals_processed = @ + 1]
             s2 == IF s1.hmm_enabled_ THEN updateMarketState(s1, frag.msg) ELSE s1
             trading_signal == generateTradingSignal(frag.msg)
             order == TradingOrder(s2, frag.msg, trading_signal)
             published == result = "POSITION"
             s3 == IF published
                   THEN [s2 EXCEPT !.statistics_.orders_generated = @ + 1,
                                   !.statistics_.buy_signals =
                                       IF trading_signal = BUY THEN @ + 1 ELSE @,
                                   !.statistics_.sell_signals =
                                       IF trading_signal = SELL THEN @ + 1 ELSE @]
                   ELSE s2
         IN  IF trading_signal # NONE
             THEN [se |-> s3, signal |-> trading_signal,
                   offers |-> <<[msg |-> order, accepted |-> published]>>]
             ELSE [se |-> s2, signal |-> NONE, offers |-> << >>]

\* the DC signals an external publisher can put on the lane: every kind with a
\* negative, zero and positive time-adjusted return, in three shapes of
\* (price, tmv_ext, duration): volatility indicator +inf, 0.01 and 0.25
SeSignals ==
    LET sig(k, r, x) ==
            [timestamp |-> TsUnit, event_type |-> k, price |-> x[1], tmv_ext |-> x[2],
             duration |-> x[3], time_adjusted_return |-> r]
    IN  {sig(k, r, <<Px(100), Px(1), 0>>) :
            k \in {NONE, UPTURN, DOWNTURN}, r \in {Px(-1), Zero, Px(1)}}
        \cup {sig(UPTURN, Px(1), <<Px(20000), Fin(1, 100), 1000000000>>),
              sig(DOWNTURN, Px(-1), <<Px(20000), Fin(1, 100), 1000000000>>),
              sig(NONE, Zero, <<Px(50), Fin(1, 4), 1000000000>>)}

\* the stage is the strategy engine alone, fed by an external publisher
InitSE ==
    /\ MdpIdle
    /\ thr = NoThreads
    /\ StagesIdle
    /\ run = "se"
    /\ script = << >>
    /\ dc = DCIndicator(Theta0004)
    /\ fresh = dc
    /\ ret = DCEvent
    /\ tick = MarketDataPoint(0, NaN)
    /\ events = << >>
    /\ fevents = << >>
    /\ hist = HistInit

\* a fragment arrives on the input subscription: a DC signal, or a short fragment
SignalArrives ==
    /\ run = "se"
    /\ seTrace.inputs < MaxSignals
    /\ \E frag \in {[length |-> DCSignalMessageSize, msg |-> m] : m \in SeSignals}
                   \cup {[length |-> DCSignalMessageSize - 8,
                          msg |-> DCSignalMessage(DCEvent)]} :
          signalLane' = Append(signalLane, frag)
    /\ seTrace' = [seTrace EXCEPT !.inputs = @ + 1]
    /\ UNCHANGED <<se, orderLane, ee, eeTrace, mock, run, script, thr>>
    /\ UNCHANGED <<tickLane, statistics, arrived, mdpTrace>>
    /\ UNCHANGED detVars

\* enableHMM(enable) or setLeverageFactor(leverage), before the worker is started
ConfigureSE ==
    /\ run = "se"
    /\ seTrace.inputs = 0
    /\ \/ \E enable \in BOOLEAN : se' = [se EXCEPT !.hmm_enabled_ = enable]
       \/ \E leverage \in {Fin(1, 200), Px(1), Px(3)} :
             se' = [se EXCEPT !.leverage_factor_ = leverage]
    /\ UNCHANGED <<orderLane, seTrace, ee, eeTrace, mock, run, script, thr>>
    /\ UNCHANGED mdpVars
    /\ UNCHANGED detVars

\* the poll delivers the next fragment to processDCSignal
ProcessDCSignal ==
    /\ run \in {"se", "pipeline"}
    /\ signalLane # << >>
    /\ \E result \in (IF run = "pipeline" THEN {"POSITION"} ELSE OfferResults) :
       \E out \in {processDCSignal(se, Head(signalLane), result)} :
          LET frag == Head(signalLane)
              took == SelectSeq(out.offers, LAMBDA o : o.accepted)
              full == frag.length >= DCSignalMessageSize
          IN  /\ signalLane' = Tail(signalLane)
              /\ se' = out.se
              /\ orderLane' = orderLane \o
                     [i \in 1..Len(took) |->
                         [length |-> TradingOrderSize, msg |-> took[i].msg]]
              /\ seTrace' =
                     [seTrace EXCEPT
                        !.length = frag.length,
                        !.kind = frag.msg.event_type,
                        !.tar = frag.msg.time_adjusted_return,
                        !.price = frag.msg.price,
                        !.signal = out.signal,
                        !.offers = Len(out.offers),
                        !.accepted = Len(took),
                        !.result = IF out.offers = << >> THEN "" ELSE result,
                        !.quantity = IF out.offers = << >> THEN Zero
                                     ELSE out.offers[1].msg.quantity,
                        !.dropped = @ + (Len(out.offers) - Len(took)),
                        !.afterDrop = IF seTrace.dropped > 0 /\ full THEN @ + 1 ELSE @]
    /\ UNCHANGED <<ee, eeTrace, mock, run, script, thr>>
    /\ UNCHANGED <<tickLane, statistics, arrived, mdpTrace>>
    /\ UNCHANGED detVars

NextSE == SignalArrives \/ ConfigureSE \/ ProcessDCSignal

SpecSE == InitSE /\ [][NextSE]_vars

----------------------------------------------------------------------------
(* ExecutionEngine *)

\* the size of the window daily_returns_
ReturnsWindow == 252

MaxOrders == 3

\* ExecutionEngine::simulateExecution with the slippage drawn, or executeLiveOrder;
\* order_id is the counter it is built from
executeOrder(e, order, slippage) ==
    [order_id |-> e.order_counter_ + 1,
     signal |-> order.signal,
     executed_price |-> IF e.simulation_mode_
                        THEN DMul(order.price, DAdd(Px(1), slippage))
                        ELSE order.price,
     executed_quantity |-> order.quantity,
     status |-> IF e.simulation_mode_ THEN FILLED ELSE PENDING,
     dc_timestamp |-> order.dc_timestamp]

\* ExecutionEngine::calculatePnL: the P&L, against the static last_price
calculatePnL(e, execution) ==
    LET last_price == IF e.last_price_initialized THEN e.last_price
                      ELSE execution.executed_price
    IN  IF execution.signal = SELL
        THEN DMul(DSub(execution.executed_price, last_price), execution.executed_quantity)
        ELSE Zero

\* mutant: a trade of zero P&L is counted as a winning trade
updatePerformanceMetrics_flatWins(e, execution) ==
    IF execution.status # FILLED THEN e
    ELSE LET trade_pnl == calculatePnL(e, execution)
             position == IF execution.signal = BUY
                         THEN DAdd(e.current_position_, execution.executed_quantity)
                         ELSE IF execution.signal = SELL
                         THEN DSub(e.current_position_, execution.executed_quantity)
                         ELSE e.current_position_
             capital == DAdd(e.current_capital_, trade_pnl)
             m == e.performance_metrics_
             total_pnl == DAdd(m.total_pnl, trade_pnl)
             total_trades == m.total_trades + 1
             winning == IF DGe(trade_pnl, Zero) THEN m.winning_trades + 1
                        ELSE m.winning_trades
             losing == IF DLt(trade_pnl, Zero) THEN m.losing_trades + 1
                       ELSE m.losing_trades
             peak == IF DGt(capital, e.peak_capital_) THEN capital ELSE e.peak_capital_
             current_drawdown == DDiv(DSub(peak, capital), peak)
             returns == Append(e.daily_returns_, DDiv(trade_pnl, e.initial_capital_))
         IN  [e EXCEPT
                !.last_price_initialized = TRUE,
                !.last_price = execution.executed_price,
                !.current_position_ = position,
                !.current_capital_ = capital,
                !.peak_capital_ = peak,
                !.performance_metrics_ =
                    [total_pnl |-> total_pnl,
                     win_rate |-> DDiv(ToDouble(winning), ToDouble(total_trades)),
                     total_trades |-> total_trades,
                     winning_trades |-> winning,
                     losing_trades |-> losing,
                     max_drawdown |-> IF DGt(current_drawdown, m.max_drawdown)
                                      THEN current_drawdown ELSE m.max_drawdown,
                     avg_trade_pnl |-> DDiv(total_pnl, ToDouble(total_trades))],
                !.daily_returns_ = IF Len(returns) > ReturnsWindow
                                   THEN Tail(returns) ELSE returns]

\* mutant: the peak follows the capital down
updatePerformanceMetrics_peakFollows(e, execution) ==
    IF execution.status # FILLED THEN e
    ELSE LET trade_pnl == calculatePnL(e, execution)
             position == IF execution.signal = BUY
                         THEN DAdd(e.current_position_, execution.executed_quantity)
                         ELSE IF execution.signal = SELL
                         THEN DSub(e.current_position_, execution.executed_quantity)
                         ELSE e.current_position_
             capital == DAdd(e.current_capital_, trade_pnl)
             m == e.performance_metrics_
             total_pnl == DAdd(m.total_pnl, trade_pnl)
             total_trades == m.total_trades + 1
             winning == IF DGt(trade_pnl, Zero) THEN m.winning_trades + 1
                        ELSE m.winning_trades
             losing == IF DLt(trade_pnl, Zero) THEN m.losing_trades + 1
                       ELSE m.losing_trades
             peak == capital
             current_drawdown == DDiv(DSub(peak, capital), peak)
             returns == Append(e.daily_returns_, DDiv(trade_pnl, e.initial_capital_))
         IN  [e EXCEPT
                !.last_price_initialized = TRUE,
                !.last_price = execution.executed_price,
                !.current_position_ = position,
                !.current_capital_ = capital,
                !.peak_capital_ = peak,
                !.performance_metrics_ =
                    [total_pnl |-> total_pnl,
                     win_rate |-> DDiv(ToDouble(winning), ToDouble(total_trades)),
                     total_trades |-> total_trades,
                     winning_trades |-> winning,
                     losing_trades |-> losing,
                     max_drawdown |-> IF DGt(current_drawdown, m.max_drawdown)
                                      THEN current_drawdown ELSE m.max_drawdown,
                     avg_trade_pnl |-> DDiv(total_pnl, ToDouble(total_trades))],
                !.daily_returns_ = IF Len(returns) > ReturnsWindow
                                   THEN Tail(returns) ELSE returns]

\* mutant: a full window keeps its entries and the new return is lost
updatePerformanceMetrics_dropNewest(e, execution) ==
    IF execution.status # FILLED THEN e
    ELSE LET trade_pnl == calculatePnL(e, execution)
             position == IF execution.signal = BUY
                         THEN DAdd(e.current_position_, execution.executed_quantity)
                         ELSE IF execution.signal = SELL
                         THEN DSub(e.current_position_, execution.executed_quantity)
                         ELSE e.current_position_
             capital == DAdd(e.current_capital_, trade_pnl)
             m == e.performance_metrics_
             total_pnl == DAdd(m.total_pnl, trade_pnl)
             total_trades == m.total_trades + 1
             winning == IF DGt(trade_pnl, Zero) THEN m.winning_trades + 1
                        ELSE m.winning_trades
             losing == IF DLt(trade_pnl, Zero) THEN m.losing_trades + 1
                       ELSE m.losing_trades
             peak == IF DGt(capital, e.peak_capital_) THEN capital ELSE e.peak_capital_
             current_drawdown == DDiv(DSub(peak, capital), peak)
             returns == Append(e.daily_returns_, DDiv(trade_pnl, e.initial_capital_))
         IN  [e EXCEPT
                !.last_price_initialized = TRUE,
                !.last_price = execution.executed_price,
                !.current_position_ = position,
                !.current_capital_ = capital,
                !.peak_capital_ = peak,
                !.performance_metrics_ =
                    [total_pnl |-> total_pnl,
                     win_rate |-> DDiv(ToDouble(winning), ToDouble(total_trades)),
                     total_trades |-> total_trades,
                     winning_trades |-> winning,
                     losing_trades |-> losing,
                     max_drawdown |-> IF DGt(current_drawdown, m.max_drawdown)
                                      THEN current_drawdown ELSE m.max_drawdown,
                     avg_trade_pnl |-> DDiv(total_pnl, ToDouble(total_trades))],
                !.daily_returns_ = IF Len(returns) > ReturnsWindow
                                   THEN e.daily_returns_ ELSE returns]

\* ExecutionEngine::updatePerformanceMetrics, with calculatePnL's update of
\* last_price and updateDrawdown; the latency statistics and the Sharpe ratio
\* computed from daily_returns_ are not represented
updatePerformanceMetrics(e, execution) ==
    IF execution.status # FILLED THEN e
    ELSE LET trade_pnl == calculatePnL(e, execution)
             position == IF execution.signal = BUY
                         THEN DAdd(e.current_position_, execution.executed_quantity)
                         ELSE IF execution.signal = SELL
                         THEN DSub(e.current_position_, execution.executed_quantity)
                         ELSE e.current_position_
             capital == DAdd(e.current_capital_, trade_pnl)
             m == e.performance_metrics_
             total_pnl == DAdd(m.total_pnl, trade_pnl)
             total_trades == m.total_trades + 1
             winning == IF DGt(trade_pnl, Zero) THEN m.winning_trades + 1
                        ELSE m.winning_trades
             losing == IF DLt(trade_pnl, Zero) THEN m.losing_trades + 1
                       ELSE m.losing_trades
             peak == IF DGt(capital, e.peak_capital_) THEN capital ELSE e.peak_capital_
             current_drawdown == DDiv(DSub(peak, capital), peak)
             returns == Append(e.daily_returns_, DDiv(trade_pnl, e.initial_capital_))
         IN  [e EXCEPT
                !.last_price_initialized = TRUE,
                !.last_price = execution.executed_price,
                !.current_position_ = position,
                !.current_capital_ = capital,
                !.peak_capital_ = peak,
                !.performance_metrics_ =
                    [total_pnl |-> total_pnl,
                     win_rate |-> DDiv(ToDouble(winning), ToDouble(total_trades)),
                     total_trades |-> total_trades,
                     winning_trades |-> winning,
                     losing_trades |-> losing,
                     max_drawdown |-> IF DGt(current_drawdown, m.max_drawdown)
                                      THEN current_drawdown ELSE m.max_drawdown,
                     avg_trade_pnl |-> DDiv(total_pnl, ToDouble(total_trades))],
                !.daily_returns_ = IF Len(returns) > ReturnsWindow
                                   THEN Tail(returns) ELSE returns]

\* mutant: the execution is put at the front of the trade history
processOrder_prepend(e, frag, slippage) ==
    IF frag.length < TradingOrderSize THEN e
    ELSE LET execution == executeOrder(e, frag.msg, slippage)
             e1 == [e EXCEPT !.order_counter_ = @ + 1,
                             !.trade_history_ = <<execution>> \o @]
         IN  updatePerformanceMetrics(e1, execution)

\* mutant: a short fragment is executed like an order
processOrder_noSizeCheck(e, frag, slippage) ==
    LET execution == executeOrder(e, frag.msg, slippage)
        e1 == [e EXCEPT !.order_counter_ = @ + 1,
                        !.trade_history_ = Append(@, execution)]
    IN  updatePerformanceMetrics(e1, execution)

\* ExecutionEngine::processOrder on one fragment
processOrder(e, frag, slippage) ==
    IF frag.length < TradingOrderSize THEN e
    ELSE LET execution == executeOrder(e, frag.msg, slippage)
             e1 == [e EXCEPT !.order_counter_ = @ + 1,
                             !.trade_history_ = Append(@, execution)]
         IN  updatePerformanceMetrics(e1, execution)

\* ExecutionEngine::resetPerformanceTracking
resetPerformanceTracking(e) ==
    [e EXCEPT !.current_capital_ = e.initial_capital_,
              !.current_position_ = Zero,
              !.peak_capital_ = e.initial_capital_,
              !.performance_metrics_ = PerformanceMetrics,
              !.trade_history_ = << >>,
              !.daily_returns_ = << >>]

\* the position book of the position-aware P&L rule after a filled execution
BookNext(b, execution) ==
    LET q == execution.executed_quantity
        px == execution.executed_price
    IN  IF execution.signal = BUY
        THEN [position_qty |-> DAdd(b.position_qty, q),
              avg_entry_price |->
                  IF DGt(b.position_qty, Zero)
                  THEN DDiv(DAdd(DMul(b.avg_entry_price, b.position_qty), DMul(px, q)),
                            DAdd(b.position_qty, q))
                  ELSE px]
        ELSE IF execution.signal = SELL
        THEN [position_qty |-> DSub(b.position_qty, q),
              avg_entry_price |-> IF DGt(q, b.position_qty) THEN px ELSE b.avg_entry_price]
        ELSE b

\* the orders an external publisher can put on the lane
EeOrders ==
    {[signal |-> x[1], price |-> x[2], quantity |-> x[3], dc_timestamp |-> TsUnit] :
        x \in {<<BUY, Px(100), Px(2)>>, <<SELL, Px(200), Px(1)>>,
               <<SELL, Px(100), Px(3)>>, <<HOLD, Px(200), Px(1)>>,
               <<SELL, Px(100), Px(2000)>>}}

\* the slippage simulateExecution draws from [-0.0001, 0.0001]
Slippages == {Fin(-1, 10000), Zero, Fin(1, 10000)}

\* the stage is the execution engine alone, fed by an external publisher
InitEE ==
    /\ MdpIdle
    /\ thr = NoThreads
    /\ StagesIdle
    /\ run = "ee"
    /\ script = << >>
    /\ dc = DCIndicator(Theta0004)
    /\ fresh = dc
    /\ ret = DCEvent
    /\ tick = MarketDataPoint(0, NaN)
    /\ events = << >>
    /\ fevents = << >>
    /\ hist = HistInit

\* a fragment arrives on the input subscription: an order, or a short fragment
OrderArrives ==
    /\ run = "ee"
    /\ eeTrace.inputs < MaxOrders
    /\ \E frag \in {[length |-> TradingOrderSize, msg |-> o] : o \in EeOrders}
                   \cup {[length |-> TradingOrderSize - 8,
                          msg |-> [signal |-> NONE, price |-> Zero, quantity |-> Zero,
                                   dc_timestamp |-> 0]]} :
          orderLane' = Append(orderLane, frag)
    /\ eeTrace' = [eeTrace EXCEPT !.inputs = @ + 1]
    /\ UNCHANGED <<se, seTrace, ee, mock, run, script, thr>>
    /\ UNCHANGED mdpVars
    /\ UNCHANGED detVars

\* setInitialCapital(capital) or setSimulationMode(enable)
ConfigureEE ==
    /\ run = "ee"
    /\ eeTrace.inputs < MaxOrders
    /\ \/ \E capital \in {Px(50000), Px(100000)} :
             ee' = [ee EXCEPT !.initial_capital_ = capital]
       \/ \E enable \in BOOLEAN : ee' = [ee EXCEPT !.simulation_mode_ = enable]
    /\ eeTrace' = [eeTrace EXCEPT !.inputs = @ + 1]
    /\ UNCHANGED <<se, orderLane, seTrace, mock, run, script, thr>>
    /\ UNCHANGED mdpVars
    /\ UNCHANGED detVars

\* an external caller calls resetPerformanceTracking()
ResetPerformanceTracking ==
    /\ run = "ee"
    /\ eeTrace.inputs < MaxOrders
    /\ ee' = resetPerformanceTracking(ee)
    /\ eeTrace' = [eeTrace EXCEPT !.inputs = @ + 1, !.pnls = << >>, !.resets = @ + 1,
                                  !.book = [position_qty |-> Zero,
                                            avg_entry_price |-> Zero]]
    /\ UNCHANGED <<se, orderLane, seTrace, mock, run, script, thr>>
    /\ UNCHANGED mdpVars
    /\ UNCHANGED detVars

\* the poll delivers the next fragment to processOrder
ProcessOrder ==
    /\ run \in {"ee", "pipeline", "window", "counters"}
    /\ orderLane # << >>
    /\ \E slippage \in (IF ee.simulation_mode_ /\ Head(orderLane).length >= TradingOrderSize
                         THEN Slippages ELSE {Zero}) :
       \E e \in {processOrder(ee, Head(orderLane), slippage)} :
          LET frag == Head(orderLane)
              executed == Len(e.trade_history_) > Len(ee.trade_history_)
              execution == e.trade_history_[Len(e.trade_history_)]
              filled == executed /\ execution.status = FILLED
              trade_pnl == DSub(e.performance_metrics_.total_pnl,
                                ee.performance_metrics_.total_pnl)
          IN  /\ orderLane' = Tail(orderLane)
              /\ ee' = e
              /\ eeTrace' =
                    [eeTrace EXCEPT
                       !.length = frag.length,
                       !.status = IF executed THEN execution.status ELSE PENDING,
                       !.signal = IF executed THEN execution.signal ELSE NONE,
                       !.executed_price = IF executed THEN execution.executed_price ELSE Zero,
                       !.executed_quantity =
                            IF executed THEN execution.executed_quantity ELSE Zero,
                       !.trade_pnl = IF filled THEN trade_pnl ELSE Zero,
                       !.pnls = IF filled THEN Append(@, trade_pnl) ELSE @,
                       !.bookBefore = eeTrace.book,
                       !.book = IF filled THEN BookNext(@, execution) ELSE @]
    /\ UNCHANGED <<se, seTrace, mock, run, script, thr>>
    /\ UNCHANGED <<tickLane, signalLane, statistics, arrived, mdpTrace>>
    /\ UNCHANGED detVars

NextEE == OrderArrives \/ ConfigureEE \/ ResetPerformanceTracking \/ ProcessOrder

SpecEE == InitEE /\ [][NextEE]_vars

----------------------------------------------------------------------------
(* The execution engine with a window of returns one short of full *)

\* the engine after its first n orders, all {buy, price 100, quantity 2}, were
\* processed in simulation mode with no slippage
AfterBuys(n) ==
    [ExecutionEngine EXCEPT
        !.current_position_ = Px(2 * n),
        !.order_counter_ = n,
        !.performance_metrics_ = [PerformanceMetrics EXCEPT !.total_trades = n],
        !.trade_history_ =
            [i \in 1..n |-> [order_id |-> i, signal |-> BUY, executed_price |-> Px(100),
                             executed_quantity |-> Px(2), status |-> FILLED,
                             dc_timestamp |-> TsUnit]],
        !.daily_returns_ = [i \in 1..n |-> Zero],
        !.last_price_initialized = n > 0,
        !.last_price = IF n > 0 THEN Px(100) ELSE Zero]

InitWindow ==
    /\ MdpIdle
    /\ thr = NoThreads
    /\ run = "window"
    /\ script = << >>
    /\ dc = DCIndicator(Theta0004)
    /\ fresh = dc
    /\ ret = DCEvent
    /\ tick = MarketDataPoint(0, NaN)
    /\ events = << >>
    /\ fevents = << >>
    /\ hist = HistInit
    /\ se = StrategyEngine
    /\ orderLane = << >>
    /\ seTrace = [inputs |-> 0, length |-> 0, kind |-> NONE, signal |-> NONE,
                  tar |-> Zero, price |-> Zero, quantity |-> Zero,
                  offers |-> 0, accepted |-> 0, result |-> "", dropped |-> 0,
                  afterDrop |-> 0]
    /\ ee = AfterBuys(ReturnsWindow - 1)
    /\ eeTrace = [inputs |-> 0, length |-> TradingOrderSize, status |-> FILLED,
                  signal |-> BUY, executed_price |-> Px(100),
                  executed_quantity |-> Px(2), trade_pnl |-> Zero,
                  pnls |-> [i \in 1..(ReturnsWindow - 1) |-> Zero],
                  book |-> [position_qty |-> Px(2 * (ReturnsWindow - 1)),
                            avg_entry_price |-> Px(100)],
                  bookBefore |-> [position_qty |-> Px(2 * (ReturnsWindow - 2)),
                                  avg_entry_price |-> Px(100)],
                  resets |-> 0]
    /\ mock = [offered |-> << >>, messageQueue |-> << >>, delivered |-> << >>]

MaxWindowOrders == 3

\* a sell order for a few units arrives on the input subscription
OrderArrivesWindow ==
    /\ run \in {"window", "race"}
    /\ eeTrace.inputs < MaxWindowOrders
    /\ \E o \in {x \in EeOrders : x.signal = SELL /\ DLt(x.quantity, Px(4))} :
          orderLane' = Append(orderLane, [length |-> TradingOrderSize, msg |-> o])
    /\ eeTrace' = [eeTrace EXCEPT !.inputs = @ + 1]
    /\ UNCHANGED <<se, seTrace, ee, mock, run, script, thr>>
    /\ UNCHANGED mdpVars
    /\ UNCHANGED detVars

NextWindow == OrderArrivesWindow \/ ProcessOrder

SpecWindow == InitWindow /\ [][NextWindow]_vars

----------------------------------------------------------------------------
(* The execution engine's worker and a thread calling resetPerformanceTracking.
   A step is what a thread does up to the end of a critical section: the worker
   holds trades_mutex_ for the push_back and then performance_mutex_ for the
   update; the reset takes performance_mutex_, then trades_mutex_ *)

InitRace ==
    /\ MdpIdle
    /\ StagesIdle
    /\ thr = [worker |-> "idle", execution |-> << >>, reset |-> "idle",
              trades_mutex_ |-> "", performance_mutex_ |-> ""]
    /\ run = "race"
    /\ script = << >>
    /\ dc = DCIndicator(Theta0004)
    /\ fresh = dc
    /\ ret = DCEvent
    /\ tick = MarketDataPoint(0, NaN)
    /\ events = << >>
    /\ fevents = << >>
    /\ hist = HistInit

\* the worker in processOrder, to the end of the block that holds trades_mutex_
StoreExecution ==
    /\ run = "race"
    /\ thr.worker = "idle"
    /\ orderLane # << >>
    /\ thr.trades_mutex_ = ""
    /\ \E slippage \in Slippages :
          LET frag == Head(orderLane)
              execution == executeOrder(ee, frag.msg, slippage)
          IN  IF frag.length < TradingOrderSize
              THEN UNCHANGED <<ee, thr>>
              ELSE /\ ee' = [ee EXCEPT !.order_counter_ = @ + 1,
                                       !.trade_history_ = Append(@, execution)]
                   /\ thr' = [thr EXCEPT !.worker = "stored",
                                         !.execution = <<execution>>]
    /\ orderLane' = Tail(orderLane)
    /\ UNCHANGED <<se, seTrace, eeTrace, mock, run, script>>
    /\ UNCHANGED mdpVars
    /\ UNCHANGED detVars

\* the worker in updatePerformanceMetrics, which returns before locking when the
\* execution is not filled
UpdateMetrics ==
    /\ run = "race"
    /\ thr.worker = "stored"
    /\ thr.execution[1].status # FILLED \/ thr.performance_mutex_ = ""
    /\ ee' = updatePerformanceMetrics(ee, thr.execution[1])
    /\ thr' = [thr EXCEPT !.worker = "idle", !.execution = << >>]
    /\ UNCHANGED <<se, orderLane, seTrace, eeTrace, mock, run, script>>
    /\ UNCHANGED mdpVars
    /\ UNCHANGED detVars

\* resetPerformanceTracking: lock1(performance_mutex_)
ResetLock ==
    /\ run = "race"
    /\ thr.reset = "idle"
    /\ thr.performance_mutex_ = ""
    /\ thr' = [thr EXCEPT !.reset = "locked", !.performance_mutex_ = "reset"]
    /\ UNCHANGED <<se, orderLane, seTrace, ee, eeTrace, mock, run, script>>
    /\ UNCHANGED mdpVars
    /\ UNCHANGED detVars

\* resetPerformanceTracking: lock2(trades_mutex_), the body, both locks released
ResetBody ==
    /\ run = "race"
    /\ thr.reset = "locked"
    /\ thr.trades_mutex_ = ""
    /\ ee' = resetPerformanceTracking(ee)
    /\ thr' = [thr EXCEPT !.reset = "idle", !.performance_mutex_ = ""]
    /\ UNCHANGED <<se, orderLane, seTrace, eeTrace, mock, run, script>>
    /\ UNCHANGED mdpVars
    /\ UNCHANGED detVars

NextRace == OrderArrivesWindow \/ StoreExecution \/ UpdateMetrics \/ ResetLock \/ ResetBody

SpecRace == InitRace /\ [][NextRace]_vars

----------------------------------------------------------------------------
(* A stage's worker thread and the threads that call start() and stop() on the
   stage; the stage is the market data processor.  A step is one access to
   running_ or to processing_thread_, or one fragment the poll hands to the
   handler.  thr.worker[w] is where the w-th thread launched stands, thr.read[w]
   the fragments its poll has handled, thr.joined the threads that were joined, thr.sinceClear the records handled since running_ was last
   cleared, thr.stopped whether stop() has returned from its join and no start()
   has launched a thread since *)

MaxStarts == 2

MaxLifeTicks == 12

\* the fragment limit processLoop passes to poll
fragmentLimit == 10

LifeRuns == {"stop", "startstop"}

Alive(t) == {w \in DOMAIN t.worker : t.worker[w] \in {"loop", "poll"}}

InitLife(name, callers) ==
    /\ MdpIdle
    /\ StagesIdle
    /\ thr = [running_ |-> FALSE, processing_thread_ |-> 0, joined |-> {},
              pc |-> [c \in callers |-> "idle"], joining |-> [c \in callers |-> 0],
              worker |-> << >>, read |-> << >>, sinceClear |-> 0, stopped |-> FALSE,
              process |-> "running"]
    /\ run = name
    /\ script = << >>
    /\ dc = DCIndicator(Theta0004)
    /\ fresh = dc
    /\ ret = DCEvent
    /\ tick = MarketDataPoint(0, NaN)
    /\ events = << >>
    /\ fevents = << >>
    /\ hist = HistInit

LifeUnchanged ==
    /\ UNCHANGED <<run, script, ret, tick, events, hist, fresh, fevents, mdpTrace>>
    /\ UNCHANGED stageVars

\* the publisher of the tick lane, which runs whether the stage does or not
PublishTick ==
    /\ run \in LifeRuns
    /\ thr.process = "running"
    /\ arrived < MaxLifeTicks
    /\ arrived' = arrived + 1
    /\ tickLane' = Append(tickLane,
                          [length |-> MarketDataMessageSize,
                           msg |-> MarketDataMessage(arrived' * TsUnit,
                                                     Px(100 + (arrived' % 2)))])
    /\ UNCHANGED <<dc, signalLane, statistics, thr>>
    /\ LifeUnchanged

\* start(): if (running_.load()) return;
StartCall ==
    /\ run \in LifeRuns
    /\ thr.process = "running"
    /\ Len(thr.worker) < MaxStarts
    /\ \E c \in DOMAIN thr.pc :
          /\ thr.pc[c] = "idle"
          /\ thr' = IF thr.running_ THEN thr ELSE [thr EXCEPT !.pc[c] = "start"]
    /\ UNCHANGED <<dc, tickLane, signalLane, statistics, arrived>>
    /\ LifeUnchanged

\* start(): running_.store(true); processing_thread_ = make_unique<thread>(...).
\* The assignment destroys the std::thread held before, and the destructor of a
\* joinable std::thread calls std::terminate
StartLaunch ==
    /\ run \in LifeRuns
    /\ thr.process = "running"
    /\ \E c \in DOMAIN thr.pc :
          /\ thr.pc[c] = "start"
          /\ thr' = [thr EXCEPT
                        !.pc[c] = "idle",
                        !.running_ = TRUE,
                        !.sinceClear = 0,
                        !.stopped = FALSE,
                        !.worker = Append(@, "loop"),
                        !.read = Append(@, 0),
                        !.processing_thread_ = Len(thr.worker) + 1,
                        !.process = IF thr.processing_thread_ # 0
                                       /\ thr.processing_thread_ \notin thr.joined
                                    THEN "terminated" ELSE @]
    /\ UNCHANGED <<dc, tickLane, signalLane, statistics, arrived>>
    /\ LifeUnchanged

\* stop(): if (!running_.load()) return;
StopCall ==
    /\ run \in LifeRuns
    /\ thr.process = "running"
    /\ \E c \in DOMAIN thr.pc :
          /\ thr.pc[c] = "idle"
          /\ thr' = IF thr.running_ THEN [thr EXCEPT !.pc[c] = "stop"] ELSE thr
    /\ UNCHANGED <<dc, tickLane, signalLane, statistics, arrived>>
    /\ LifeUnchanged

\* stop(): running_.store(false); if (processing_thread_ && joinable()) the
\* caller goes on to join
StopClear ==
    /\ run \in LifeRuns
    /\ thr.process = "running"
    /\ \E c \in DOMAIN thr.pc :
          /\ thr.pc[c] = "stop"
          /\ thr' = IF thr.processing_thread_ # 0
                       /\ thr.processing_thread_ \notin thr.joined
                    THEN [thr EXCEPT !.running_ = FALSE, !.sinceClear = 0,
                                     !.pc[c] = "join",
                                     !.joining[c] = thr.processing_thread_]
                    ELSE [thr EXCEPT !.running_ = FALSE, !.sinceClear = 0,
                                     !.pc[c] = "idle"]
    /\ UNCHANGED <<dc, tickLane, signalLane, statistics, arrived>>
    /\ LifeUnchanged

\* stop(): processing_thread_->join() returns once that thread has ended
StopJoin ==
    /\ run \in LifeRuns
    /\ thr.process = "running"
    /\ \E c \in DOMAIN thr.pc :
          /\ thr.pc[c] = "join"
          /\ thr.worker[thr.joining[c]] = "exited"
          /\ thr' = [thr EXCEPT !.pc[c] = "idle", !.joining[c] = 0,
                                !.joined = @ \cup {thr.joining[c]},
                                !.stopped = TRUE]
    /\ UNCHANGED <<dc, tickLane, signalLane, statistics, arrived>>
    /\ LifeUnchanged

\* processLoop: while (running_.load())
WorkerCheck ==
    /\ run \in LifeRuns
    /\ thr.process = "running"
    /\ \E w \in DOMAIN thr.worker :
          /\ thr.worker[w] = "loop"
          /\ thr' = [thr EXCEPT !.worker[w] = IF thr.running_ THEN "poll" ELSE "exited"]
    /\ UNCHANGED <<dc, tickLane, signalLane, statistics, arrived>>
    /\ LifeUnchanged

\* mutant: the poll goes on for as long as fragments are queued
WorkerHandle_noLimit ==
    /\ run \in LifeRuns
    /\ thr.process = "running"
    /\ tickLane # << >>
    /\ \E w \in DOMAIN thr.worker :
       \E out \in {processMarketData(statistics, dc, Head(tickLane), "POSITION")} :
          /\ thr.worker[w] = "poll"
          /\ statistics' = out.statistics
          /\ dc' = IF out.detections = << >> THEN dc ELSE out.detections[1].dc
          /\ tickLane' = Tail(tickLane)
          /\ signalLane' = signalLane \o
                 [i \in 1..Len(out.offers) |->
                     [length |-> DCSignalMessageSize, msg |-> out.offers[i].msg]]
          /\ thr' = [thr EXCEPT !.read[w] = IF @ < fragmentLimit THEN @ + 1 ELSE @,
                                !.sinceClear = IF thr.running_ THEN @ ELSE @ + 1]
    /\ UNCHANGED arrived
    /\ LifeUnchanged

\* processLoop: the body, input_subscription_->poll(handler, 10): while fragments
\* are queued and fewer than the limit were read, the oldest goes to
\* processMarketData
WorkerHandle ==
    /\ run \in LifeRuns
    /\ thr.process = "running"
    /\ tickLane # << >>
    /\ \E w \in DOMAIN thr.worker :
       \E out \in {processMarketData(statistics, dc, Head(tickLane), "POSITION")} :
          /\ thr.worker[w] = "poll"
          /\ thr.read[w] < fragmentLimit
          /\ statistics' = out.statistics
          /\ dc' = IF out.detections = << >> THEN dc ELSE out.detections[1].dc
          /\ tickLane' = Tail(tickLane)
          /\ signalLane' = signalLane \o
                 [i \in 1..Len(out.offers) |->
                     [length |-> DCSignalMessageSize, msg |-> out.offers[i].msg]]
          /\ thr' = [thr EXCEPT !.read[w] = @ + 1,
                                !.sinceClear = IF thr.running_ THEN @ ELSE @ + 1]
    /\ UNCHANGED arrived
    /\ LifeUnchanged

\* processLoop: poll returns, idleStrategy.idle, back to the loop's test
WorkerPollEnd ==
    /\ run \in LifeRuns
    /\ thr.process = "running"
    /\ \E w \in DOMAIN thr.worker :
          /\ thr.worker[w] = "poll"
          /\ thr.read[w] >= fragmentLimit \/ tickLane = << >>
          /\ thr' = [thr EXCEPT !.worker[w] = "loop", !.read[w] = 0]
    /\ UNCHANGED <<dc, tickLane, signalLane, statistics, arrived>>
    /\ LifeUnchanged

NextLife ==
    \/ PublishTick
    \/ StartCall
    \/ StartLaunch
    \/ StopCall
    \/ StopClear
    \/ StopJoin
    \/ WorkerCheck
    \/ WorkerHandle
    \/ WorkerPollEnd

\* ENABLED <<WorkerHandle>>_vars, written out: a worker is in a poll that has
\* not reached its limit and a fragment is queued
HandleEnabled ==
    /\ run \in LifeRuns
    /\ thr.process = "running"
    /\ tickLane # << >>
    /\ \E w \in DOMAIN thr.worker :
          thr.worker[w] = "poll" /\ thr.read[w] < fragmentLimit

\* start() and stop() called by one thread, as main does; the threads are
\* scheduled fairly: weak fairness of each step of the worker and of the join,
\* that of WorkerHandle spelled out with HandleEnabled
SpecStop ==
    /\ InitLife("stop", {"main"})
    /\ [][NextLife]_vars
    /\ WF_vars(WorkerCheck)
    /\ WF_vars(WorkerPollEnd)
    /\ WF_vars(StopJoin)
    /\ ([]<>~HandleEnabled \/ []<><<WorkerHandle>>_vars)

\* start() and stop() called by two threads
SpecStartStop == InitLife("startstop", {"main", "other"}) /\ [][NextLife]_vars

----------------------------------------------------------------------------
(* main: it initializes the three stages, starts them, watches the flag the
   signal handler clears, and stops them.  thr.at is the endpoint initialize()
   is at and thr.phase what it does there; thr.connected are the endpoints whose
   isConnected() reports true, which is up to the transport and the peers;
   thr.stage is each stage's worker, thr.handled the records it handled *)

MaxHandled == 2

\* the endpoints in the order the initialize() calls create and await them
Endpoints ==
    <<"market_data_processor.input_subscription_",
      "market_data_processor.output_publication_",
      "strategy_engine.input_subscription_",
      "strategy_engine.output_publication_",
      "execution_engine.input_subscription_">>

Stages == {"market_data_processor", "strategy_engine", "execution_engine"}

InitMain ==
    /\ MdpIdle
    /\ StagesIdle
    /\ thr = [main |-> "initialize", at |-> 1, phase |-> "add", connected |-> {},
              running |-> TRUE, stage |-> [st \in Stages |-> "constructed"],
              handled |-> [st \in Stages |-> 0], threw |-> {},
              process |-> "running", exit |-> -1]
    /\ run = "main"
    /\ script = << >>
    /\ dc = DCIndicator(Theta0004)
    /\ fresh = dc
    /\ ret = DCEvent
    /\ tick = MarketDataPoint(0, NaN)
    /\ events = << >>
    /\ fevents = << >>
    /\ hist = HistInit

MainUnchanged ==
    /\ UNCHANGED <<run, script>>
    /\ UNCHANGED detVars
    /\ UNCHANGED mdpVars
    /\ UNCHANGED stageVars

\* a peer or the media driver connects an endpoint
Connects ==
    /\ run = "main"
    /\ thr.process = "running"
    /\ \E i \in DOMAIN Endpoints :
          /\ Endpoints[i] \notin thr.connected
          /\ thr' = [thr EXCEPT !.connected = @ \cup {Endpoints[i]}]
    /\ MainUnchanged

\* initialize(): addSubscription / addPublication, which returns the endpoint or
\* throws; the catch block returns false and main returns 1
InitializeAdd ==
    /\ run = "main"
    /\ thr.process = "running"
    /\ thr.main = "initialize"
    /\ thr.phase = "add"
    /\ \E thrown \in BOOLEAN :
          thr' = IF thrown
                 THEN [thr EXCEPT !.main = "done", !.process = "exited", !.exit = 1]
                 ELSE [thr EXCEPT !.phase = "test"]
    /\ MainUnchanged

\* initialize(): while (!endpoint->isConnected()); after the last endpoint
\* initialize() returns true and main goes on
InitializeTest ==
    /\ run = "main"
    /\ thr.process = "running"
    /\ thr.main = "initialize"
    /\ thr.phase = "test"
    /\ thr' = IF Endpoints[thr.at] \notin thr.connected
              THEN [thr EXCEPT !.phase = "sleep"]
              ELSE IF thr.at < Len(Endpoints)
                   THEN [thr EXCEPT !.at = @ + 1, !.phase = "add"]
                   ELSE [thr EXCEPT !.main = "start", !.phase = ""]
    /\ MainUnchanged

\* initialize(): std::this_thread::sleep_for(1 ms), then the test again
InitializeSleep ==
    /\ run = "main"
    /\ thr.process = "running"
    /\ thr.main = "initialize"
    /\ thr.phase = "sleep"
    /\ thr' = [thr EXCEPT !.phase = "test"]
    /\ MainUnchanged

\* main: the three start() calls
StartAll ==
    /\ run = "main"
    /\ thr.process = "running"
    /\ thr.main = "start"
    /\ thr' = [thr EXCEPT !.main = "monitor", !.stage = [st \in Stages |-> "running"]]
    /\ MainUnchanged

\* signalHandler
signalHandler ==
    /\ run = "main"
    /\ thr.process = "running"
    /\ thr.running
    /\ thr' = [thr EXCEPT !.running = FALSE]
    /\ MainUnchanged

\* main: while (running) { sleep; statistics }, which tests nothing else
Monitor ==
    /\ run = "main"
    /\ thr.process = "running"
    /\ thr.main = "monitor"
    /\ thr' = IF thr.running THEN thr ELSE [thr EXCEPT !.main = "stop"]
    /\ MainUnchanged

\* main: the three stop() calls, each joining its worker, and return 0
StopAll ==
    /\ run = "main"
    /\ thr.process = "running"
    /\ thr.main = "stop"
    /\ thr' = [thr EXCEPT !.main = "done", !.process = "exited", !.exit = 0,
                          !.stage = [st \in Stages |-> "stopped"]]
    /\ MainUnchanged

\* a worker's handler deals with a record and returns
Handles ==
    /\ run = "main"
    /\ thr.process = "running"
    /\ \E st \in Stages :
          /\ thr.stage[st] = "running"
          /\ thr.handled[st] < MaxHandled
          /\ thr' = [thr EXCEPT !.handled[st] = @ + 1]
    /\ MainUnchanged

\* a worker's handler throws (a failed allocation in push_back, say).  No frame
\* between the handler and the thread's entry function processLoop has a try
\* block, so the exception leaves the thread function: std::terminate
HandlerThrows ==
    /\ run = "main"
    /\ thr.process = "running"
    /\ \E st \in Stages :
          /\ thr.stage[st] = "running"
          /\ thr' = [thr EXCEPT !.threw = {st}, !.process = "terminated"]
    /\ MainUnchanged

NextMain ==
    \/ Connects
    \/ InitializeAdd
    \/ InitializeTest
    \/ InitializeSleep
    \/ StartAll
    \/ signalHandler
    \/ Monitor
    \/ StopAll
    \/ Handles
    \/ HandlerThrows

\* the main thread is scheduled fairly; when an endpoint connects, a signal
\* arrives or a handler throws is up to the environment
SpecMain ==
    /\ InitMain
    /\ [][NextMain]_vars
    /\ WF_vars(InitializeAdd)
    /\ WF_vars(InitializeTest)
    /\ WF_vars(InitializeSleep)
    /\ WF_vars(StartAll)
    /\ WF_vars(Monitor)
    /\ WF_vars(StopAll)

----------------------------------------------------------------------------
(* The market data processor's worker and a thread calling setDCThreshold.
   setTheta stores theta_ with no lock and processDataPoint reads it, in the
   detection test, in calculateTMV and in calculateTimeAdjustedReturn: a store
   during a call is a data race, and each read returns the old or the new value *)

ThetaChoices == {Theta0004, Theta001}

\* processDataPoint while setTheta(theta) stores: the first k reads of theta_
\* return the old value, the later ones the new value
processDataPoint_racing(d, data_point, theta, k) ==
    LET read1 == IF k >= 1 THEN d.theta_ ELSE theta
        read2 == IF k >= 2 THEN d.theta_ ELSE theta
        read3 == IF k >= 3 THEN d.theta_ ELSE theta
        r == processDataPoint([d EXCEPT !.theta_ = read1], data_point)
        tmv == calculateTMV(read2, data_point.price, r.dc.last_dc_price_)
        event == [r.event EXCEPT
                    !.tmv_ext = tmv,
                    !.time_adjusted_return =
                        calculateTimeAdjustedReturn(read3, tmv, r.event.duration)]
    IN  IF r.event.type = NONE
        THEN [dc |-> [r.dc EXCEPT !.theta_ = theta], event |-> r.event]
        ELSE [dc |-> [r.dc EXCEPT !.theta_ = theta, !.last_dc_event_ = event],
              event |-> event]

InitTheta ==
    /\ MdpIdle
    /\ thr = NoThreads
    /\ StagesIdle
    /\ run = "theta"
    /\ script = << >>
    /\ dc = DCIndicator(Theta0004)
    /\ fresh = dc
    /\ ret = DCEvent
    /\ tick = MarketDataPoint(0, NaN)
    /\ events = << >>
    /\ fevents = << >>
    /\ hist = HistInit

\* setDCThreshold called while the worker is between two fragments
SetDCThreshold ==
    /\ run = "theta"
    /\ \E theta \in ThetaChoices \ {dc.theta_} :
          dc' = [dc EXCEPT !.theta_ = theta]
    /\ UNCHANGED <<ret, tick, events, hist, fresh, fevents, run, script, thr>>
    /\ UNCHANGED mdpVars
    /\ UNCHANGED stageVars

\* setDCThreshold called while the worker is in processMarketData on a tick
\* record
SetDCThresholdRacing ==
    /\ run = "theta"
    /\ tickLane # << >>
    /\ Head(tickLane).length >= MarketDataMessageSize
    /\ \E theta \in ThetaChoices \ {dc.theta_} :
       \E k \in 0..3 :
       \E r \in {processDataPoint_racing(
                     dc, MarketDataPoint(Head(tickLane).msg.timestamp,
                                         Head(tickLane).msg.price), theta, k)} :
          /\ tickLane' = Tail(tickLane)
          /\ statistics' = [statistics EXCEPT
                               !.messages_processed = @ + 1,
                               !.dc_events_detected =
                                   IF mustPublish(r.event) THEN @ + 1 ELSE @]
          /\ signalLane' = IF mustPublish(r.event)
                           THEN Append(signalLane,
                                       [length |-> DCSignalMessageSize,
                                        msg |-> publishDCSignal(r.event, "POSITION").msg])
                           ELSE signalLane
          /\ Observe(r, MarketDataPoint(Head(tickLane).msg.timestamp,
                                        Head(tickLane).msg.price))
    /\ UNCHANGED <<arrived, mdpTrace, run, script, thr>>
    /\ UNCHANGED stageVars

NextTheta == TickArrives \/ ProcessMarketData \/ SetDCThreshold \/ SetDCThresholdRacing

SpecTheta == InitTheta /\ [][NextTheta]_vars

----------------------------------------------------------------------------
(* Each stage alone, fed by an external publisher *)

InitStages == InitMDP \/ InitSE \/ InitEE

NextStages == NextMDP \/ NextSE \/ NextEE

SpecStages == InitStages /\ [][NextStages]_vars

----------------------------------------------------------------------------
(* The three stages composed as trading_system_main composes them, over lanes
   that take every offer and deliver it in order *)

MaxPipelineTicks == 5

\* prices inside the simulator's range [100, 200]
PipelinePrices == {Px(100), Px(101)}

InitPipeline ==
    /\ MdpIdle
    /\ thr = NoThreads
    /\ StagesIdle
    /\ run = "pipeline"
    /\ script = << >>
    /\ dc = DCIndicator(Theta0004)
    /\ fresh = dc
    /\ ret = DCEvent
    /\ tick = MarketDataPoint(0, NaN)
    /\ events = << >>
    /\ fevents = << >>
    /\ hist = HistInit

\* MarketDataSimulator::publishMarketData: the next tick is offered and taken
PublishMarketData ==
    /\ run \in {"pipeline", "counters"}
    /\ arrived < MaxPipelineTicks
    /\ arrived' = arrived + 1
    /\ \E p \in PipelinePrices :
          tickLane' = Append(tickLane,
                             [length |-> MarketDataMessageSize,
                              msg |-> MarketDataMessage(arrived' * TsUnit, p)])
    /\ UNCHANGED <<signalLane, statistics, mdpTrace, run, script, thr>>
    /\ UNCHANGED detVars
    /\ UNCHANGED stageVars

NextPipeline == PublishMarketData \/ ProcessMarketData \/ ProcessDCSignal \/ ProcessOrder

SpecPipeline == InitPipeline /\ [][NextPipeline]_vars

----------------------------------------------------------------------------
(* The pipeline with the workers' handlers taken one critical section at a
   time: each handler updates its counters under stats_mutex_ in separate
   lock scopes, with the offer to the next lane between them, and the other
   workers and the monitor run in between *)

\* the three stages idle; thr holds each worker's position in its handler,
\* the DC signal the market data worker is about to offer, and the counters
\* the strategy worker is about to store
InitCounters ==
    /\ MdpIdle
    /\ thr = [md |-> "idle", strategy |-> "idle", signal |-> << >>,
              counted |-> StrategyEngine.statistics_]
    /\ StagesIdle
    /\ run = "counters"
    /\ script = << >>
    /\ dc = DCIndicator(Theta0004)
    /\ fresh = dc
    /\ ret = DCEvent
    /\ tick = MarketDataPoint(0, NaN)
    /\ events = << >>
    /\ fevents = << >>
    /\ hist = HistInit

\* processMarketData up to the end of its first lock scope: the detector has
\* seen the tick and messages_processed is counted
MarketDataCounted ==
    /\ run = "counters"
    /\ thr.md = "idle"
    /\ tickLane # << >>
    /\ \E out \in {processMarketData(statistics, dc, Head(tickLane), "POSITION")} :
          LET frag == Head(tickLane)
          IN  /\ tickLane' = Tail(tickLane)
              /\ statistics' = [statistics EXCEPT
                                  !.messages_processed = out.statistics.messages_processed]
              /\ thr' = [thr EXCEPT !.md = IF out.offers = << >> THEN "idle" ELSE "event",
                                    !.signal = out.offers]
              /\ IF out.detections = << >>
                 THEN UNCHANGED detVars
                 ELSE Observe(out.detections[1],
                              MarketDataPoint(frag.msg.timestamp, frag.msg.price))
    /\ UNCHANGED <<signalLane, arrived, mdpTrace, run, script>>
    /\ UNCHANGED stageVars

\* processMarketData's second lock scope: dc_events_detected is counted
EventCounted ==
    /\ run = "counters"
    /\ thr.md = "event"
    /\ statistics' = [statistics EXCEPT !.dc_events_detected = @ + 1]
    /\ thr' = [thr EXCEPT !.md = "publish"]
    /\ UNCHANGED <<tickLane, signalLane, arrived, mdpTrace, run, script>>
    /\ UNCHANGED detVars
    /\ UNCHANGED stageVars

\* processMarketData's publishDCSignal: the signal is offered and taken
SignalPublished ==
    /\ run = "counters"
    /\ thr.md = "publish"
    /\ signalLane' = signalLane \o
           [i \in 1..Len(thr.signal) |->
               [length |-> DCSignalMessageSize, msg |-> thr.signal[i].msg]]
    /\ thr' = [thr EXCEPT !.md = "idle", !.signal = << >>]
    /\ UNCHANGED <<tickLane, statistics, arrived, mdpTrace, run, script>>
    /\ UNCHANGED detVars
    /\ UNCHANGED stageVars

\* processDCSignal up to the return of publishTradingOrder: signals_processed
\* is counted, the market state updated and the order offered and taken;
\* orders_generated, buy_signals and sell_signals are still to be counted
OrderPublished ==
    /\ run = "counters"
    /\ thr.strategy = "idle"
    /\ signalLane # << >>
    /\ \E out \in {processDCSignal(se, Head(signalLane), "POSITION")} :
          LET took == SelectSeq(out.offers, LAMBDA o : o.accepted)
          IN  /\ signalLane' = Tail(signalLane)
              /\ se' = [out.se EXCEPT
                          !.statistics_.orders_generated = se.statistics_.orders_generated,
                          !.statistics_.buy_signals = se.statistics_.buy_signals,
                          !.statistics_.sell_signals = se.statistics_.sell_signals]
              /\ orderLane' = orderLane \o
                     [i \in 1..Len(took) |->
                         [length |-> TradingOrderSize, msg |-> took[i].msg]]
              /\ thr' = [thr EXCEPT !.strategy = IF took = << >> THEN "idle" ELSE "count",
                                    !.counted = out.se.statistics_]
    /\ UNCHANGED <<seTrace, ee, eeTrace, mock, run, script>>
    /\ UNCHANGED <<tickLane, statistics, arrived, mdpTrace>>
    /\ UNCHANGED detVars

\* processDCSignal's second lock scope: the published order is counted
OrderCounted ==
    /\ run = "counters"
    /\ thr.strategy = "count"
    /\ se' = [se EXCEPT
                !.statistics_.orders_generated = thr.counted.orders_generated,
                !.statistics_.buy_signals = thr.counted.buy_signals,
                !.statistics_.sell_signals = thr.counted.sell_signals]
    /\ thr' = [thr EXCEPT !.strategy = "idle"]
    /\ UNCHANGED <<orderLane, seTrace, ee, eeTrace, mock, run, script>>
    /\ UNCHANGED mdpVars
    /\ UNCHANGED detVars

NextCounters ==
    \/ PublishMarketData
    \/ MarketDataCounted
    \/ EventCounted
    \/ SignalPublished
    \/ OrderPublished
    \/ OrderCounted
    \/ ProcessOrder

SpecCounters == InitCounters /\ [][NextCounters]_vars

----------------------------------------------------------------------------
(* The latency statistics of the three stages.  avg_*_latency_ns and
   max_*_latency_ns are std::int64_t; the average is computed in double and
   truncated on assignment, which for the non-negative durations the handlers
   measure is (9 * avg + sample) \div 10 *)

MaxSamples == 4

\* the durations a market data or strategy handler can measure, in ns
LatencySamples == {0, 7, 15}

\* the durations simulateExecution can measure: it sleeps at least 10 us
ExecutionLatencies == {7, 15}

\* a stage's counter of handled messages and its two latency fields, with the
\* number of samples recorded and the largest of them, since construction
\* (lifetime) and since construction or the last reset
LatencyInit ==
    [processed |-> 0, avg |-> 0, max |-> 0,
     recorded |-> 0, largest |-> 0, lifetime |-> 0, lifetimeLargest |-> 0]

\* mutant: the first sample is averaged with the initial 0 like a later one
updateLatencyStats_noSeed(st, latency_ns) ==
    [st EXCEPT !.avg = (9 * st.avg + latency_ns) \div 10,
               !.max = IF latency_ns > st.max THEN latency_ns ELSE st.max]

\* MarketDataProcessor::updateLatencyStats and StrategyEngine::updateLatencyStats,
\* called once the message has been counted
updateLatencyStats(st, latency_ns) ==
    [st EXCEPT !.avg = IF st.processed = 1 THEN latency_ns
                       ELSE (9 * st.avg + latency_ns) \div 10,
               !.max = IF latency_ns > st.max THEN latency_ns ELSE st.max]

\* the latency block of ExecutionEngine::updatePerformanceMetrics, reached
\* once the trade has been counted
updateExecutionLatency(st, execution_latency_ns) ==
    IF execution_latency_ns > 0
    THEN [st EXCEPT !.avg = IF st.processed = 1 THEN execution_latency_ns
                            ELSE (9 * st.avg + execution_latency_ns) \div 10,
                    !.max = IF execution_latency_ns > st.max
                            THEN execution_latency_ns ELSE st.max]
    ELSE st

\* the bookkeeping of a recorded sample
Recorded(st, s) ==
    [st EXCEPT !.recorded = @ + 1,
               !.largest = IF s > @ THEN s ELSE @,
               !.lifetime = @ + 1,
               !.lifetimeLargest = IF s > @ THEN s ELSE @]

InitLatency ==
    /\ MdpIdle
    /\ StagesIdle
    /\ thr = [md |-> LatencyInit, strategy |-> LatencyInit, execution |-> LatencyInit,
              samples |-> 0, sample |-> 0]
    /\ run = "latency"
    /\ script = << >>
    /\ dc = DCIndicator(Theta0004)
    /\ fresh = dc
    /\ ret = DCEvent
    /\ tick = MarketDataPoint(0, NaN)
    /\ events = << >>
    /\ fevents = << >>
    /\ hist = HistInit

\* processMarketData's first lock scope: the message is counted and its
\* processing time recorded
MarketDataLatency ==
    /\ run = "latency"
    /\ thr.samples < MaxSamples
    /\ \E latency_ns \in LatencySamples :
          thr' = [thr EXCEPT
                    !.md = Recorded(updateLatencyStats([@ EXCEPT !.processed = @ + 1],
                                                       latency_ns), latency_ns),
                    !.samples = @ + 1,
                    !.sample = latency_ns]
    /\ MainUnchanged

\* processDCSignal: the signal is counted and, at the end of the handler, its
\* processing time recorded
StrategyLatency ==
    /\ run = "latency"
    /\ thr.samples < MaxSamples
    /\ \E latency_ns \in LatencySamples :
          thr' = [thr EXCEPT
                    !.strategy = Recorded(updateLatencyStats([@ EXCEPT !.processed = @ + 1],
                                                             latency_ns), latency_ns),
                    !.samples = @ + 1,
                    !.sample = latency_ns]
    /\ MainUnchanged

\* updatePerformanceMetrics on a filled execution: the trade is counted and
\* its execution latency recorded
ExecutionLatency ==
    /\ run = "latency"
    /\ thr.samples < MaxSamples
    /\ \E latency_ns \in ExecutionLatencies :
          thr' = [thr EXCEPT
                    !.execution = Recorded(updateExecutionLatency(
                                               [@ EXCEPT !.processed = @ + 1], latency_ns),
                                           latency_ns),
                    !.samples = @ + 1,
                    !.sample = latency_ns]
    /\ MainUnchanged

\* resetPerformanceTracking: the execution engine's metrics are zeroed
ResetLatency ==
    /\ run = "latency"
    /\ thr.samples < MaxSamples
    /\ thr' = [thr EXCEPT !.execution = [@ EXCEPT !.processed = 0, !.avg = 0, !.max = 0,
                                                  !.recorded = 0, !.largest = 0],
                          !.samples = @ + 1]
    /\ MainUnchanged

NextLatency == MarketDataLatency \/ StrategyLatency \/ ExecutionLatency \/ ResetLatency

SpecLatency == InitLatency /\ [][NextLatency]_vars

----------------------------------------------------------------------------
(* The simplified detector of the tests (DCIndicator_simple.h), run beside the
   production detector on the same ticks; thr holds the simplified detector,
   size being priceHistory.size() *)

MaxSimpleTicks == 4

\* DCIndicator::DCIndicator(threshold) of DCIndicator_simple.h, which calls reset()
DCIndicatorSimple(threshold) ==
    [theta |-> threshold,
     currentPrice |-> Zero,
     extremePrice |-> Zero,
     lastTimestamp |-> 0,
     extremeTimestamp |-> 0,
     isUptrend |-> TRUE,
     dcEventDetected |-> FALSE,
     tmvExt |-> Zero,
     timeAdjustedReturn |-> Zero,
     size |-> 0]

\* calculateIndicators of DCIndicator_simple.h; prevPrice is
\* priceHistory[size - 2], the tick before this one
calculateIndicators(s, prevPrice, timestamp) ==
    LET tmv == IF DEq(prevPrice, Zero) THEN s.tmvExt
               ELSE DDiv(DSub(s.extremePrice, prevPrice), DMul(prevPrice, s.theta))
        timeDiff == timestamp - s.extremeTimestamp
    IN  [s EXCEPT !.tmvExt = tmv,
                  !.timeAdjustedReturn =
                      IF timeDiff > 0
                      THEN DMul(DDiv(tmv, DDiv(ToDouble(timeDiff), ToDouble(1000000000))),
                                s.theta)
                      ELSE @]

\* updatePrice of DCIndicator_simple.h
updatePrice(s, price, timestamp) ==
    IF s.size = 0
    THEN [s EXCEPT !.size = 1, !.currentPrice = price, !.extremePrice = price,
                   !.lastTimestamp = timestamp, !.extremeTimestamp = timestamp]
    ELSE LET s1 == [s EXCEPT !.size = @ + 1, !.currentPrice = price,
                             !.lastTimestamp = timestamp, !.dcEventDetected = FALSE]
         IN  IF s.isUptrend
             THEN IF DGt(price, s.extremePrice)
                  THEN [s1 EXCEPT !.extremePrice = price, !.extremeTimestamp = timestamp]
                  ELSE IF DGe(DDiv(DSub(s.extremePrice, price), s.extremePrice), s.theta)
                  THEN calculateIndicators([s1 EXCEPT !.dcEventDetected = TRUE,
                                                      !.isUptrend = FALSE],
                                           s.currentPrice, timestamp)
                  ELSE s1
             ELSE IF DLt(price, s.extremePrice)
                  THEN [s1 EXCEPT !.extremePrice = price, !.extremeTimestamp = timestamp]
                  ELSE IF DGe(DDiv(DSub(price, s.extremePrice), s.extremePrice), s.theta)
                  THEN calculateIndicators([s1 EXCEPT !.dcEventDetected = TRUE,
                                                      !.isUptrend = TRUE],
                                           s.currentPrice, timestamp)
                  ELSE s1

\* the two detectors constructed with the same theta, nothing fed
InitSimple ==
    /\ MdpIdle
    /\ StagesIdle
    /\ run = "simple"
    /\ script = << >>
    /\ \E th \in {Theta001, Theta002} :
          /\ dc = DCIndicator(th)
          /\ thr = DCIndicatorSimple(th)
    /\ fresh = dc
    /\ ret = DCEvent
    /\ tick = MarketDataPoint(0, NaN)
    /\ events = << >>
    /\ fevents = << >>
    /\ hist = HistInit

\* the caller feeds both detectors the same tick, stamped by a clock that
\* does not run backwards
TickBoth ==
    /\ run = "simple"
    /\ hist.total < MaxSimpleTicks
    /\ \E p \in Prices, dt \in (IF hist.total = 0 THEN {1} ELSE {0, 1}) :
          LET dp == MarketDataPoint(hist.lastTs + dt * TsUnit, p)
          IN  /\ FeedTick(dp)
              /\ thr' = updatePrice(thr, dp.price, dp.timestamp)
    /\ UNCHANGED <<run, script>>
    /\ UNCHANGED mdpVars
    /\ UNCHANGED stageVars

SpecSimple == InitSimple /\ [][TickBoth]_vars

----------------------------------------------------------------------------
(* The execution engine's two mutexes, one lock or unlock at a time: the worker
   in processOrder, and three external threads calling
   resetPerformanceTracking, getPerformanceMetrics and getTradeHistory.
   thr.pc is each thread's position, thr.calls the number of external calls
   made, "" the owner of a free mutex *)

MaxCalls == 3

MaxLockOrders == 1

Callers == {"reset", "metrics", "history"}

InitLocks ==
    /\ MdpIdle
    /\ StagesIdle
    /\ thr = [pc |-> [t \in Callers \cup {"worker"} |-> "idle"],
              calls |-> 0,
              execution |-> << >>,
              trades_mutex_ |-> "", performance_mutex_ |-> ""]
    /\ run = "locks"
    /\ script = << >>
    /\ dc = DCIndicator(Theta0004)
    /\ fresh = dc
    /\ ret = DCEvent
    /\ tick = MarketDataPoint(0, NaN)
    /\ events = << >>
    /\ fevents = << >>
    /\ hist = HistInit

\* what the steps of the threads leave alone
LocksUnchanged ==
    /\ UNCHANGED <<se, seTrace, eeTrace, mock, run, script>>
    /\ UNCHANGED mdpVars
    /\ UNCHANGED detVars

\* the strategy engine publishes a sell order
OrderArrivesLocks ==
    /\ run = "locks"
    /\ eeTrace.inputs < MaxLockOrders
    /\ orderLane' = Append(orderLane,
                           [length |-> TradingOrderSize,
                            msg |-> [signal |-> SELL, price |-> Px(200),
                                     quantity |-> Px(1), dc_timestamp |-> TsUnit]])
    /\ eeTrace' = [eeTrace EXCEPT !.inputs = @ + 1]
    /\ UNCHANGED <<se, seTrace, ee, mock, run, script, thr>>
    /\ UNCHANGED mdpVars
    /\ UNCHANGED detVars

\* processOrder: the fragment is taken and executed, trades_mutex_ locked
WorkerLockTrades ==
    /\ run = "locks"
    /\ thr.pc["worker"] = "idle"
    /\ orderLane # << >>
    /\ thr.trades_mutex_ = ""
    /\ \E slippage \in Slippages :
          thr' = [thr EXCEPT !.pc["worker"] = "trades",
                             !.trades_mutex_ = "worker",
                             !.execution = <<executeOrder(ee, Head(orderLane).msg,
                                                          slippage)>>]
    /\ orderLane' = Tail(orderLane)
    /\ UNCHANGED ee
    /\ LocksUnchanged

\* mutant: the worker keeps trades_mutex_ through updatePerformanceMetrics
WorkerStore_keepLock ==
    /\ run = "locks"
    /\ thr.pc["worker"] = "trades"
    /\ ee' = [ee EXCEPT !.order_counter_ = @ + 1,
                        !.trade_history_ = Append(@, thr.execution[1])]
    /\ thr' = [thr EXCEPT !.pc["worker"] = "stored"]
    /\ UNCHANGED orderLane
    /\ LocksUnchanged

\* processOrder: the push_back, and the end of the block that holds trades_mutex_
WorkerStore ==
    /\ run = "locks"
    /\ thr.pc["worker"] = "trades"
    /\ ee' = [ee EXCEPT !.order_counter_ = @ + 1,
                        !.trade_history_ = Append(@, thr.execution[1])]
    /\ thr' = [thr EXCEPT !.pc["worker"] = "stored", !.trades_mutex_ = ""]
    /\ UNCHANGED orderLane
    /\ LocksUnchanged

\* updatePerformanceMetrics: performance_mutex_ locked
WorkerLockPerformance ==
    /\ run = "locks"
    /\ thr.pc["worker"] = "stored"
    /\ thr.execution[1].status = FILLED
    /\ thr.performance_mutex_ = ""
    /\ thr' = [thr EXCEPT !.pc["worker"] = "performance",
                          !.performance_mutex_ = "worker"]
    /\ UNCHANGED <<ee, orderLane>>
    /\ LocksUnchanged

\* updatePerformanceMetrics: the update and the unlock, or the return before the
\* lock when the execution is not filled; processOrder returns
WorkerUpdate ==
    /\ run = "locks"
    /\ \/ thr.pc["worker"] = "performance"
       \/ thr.pc["worker"] = "stored" /\ thr.execution[1].status # FILLED
    /\ ee' = updatePerformanceMetrics(ee, thr.execution[1])
    /\ thr' = [thr EXCEPT !.pc["worker"] = "idle", !.execution = << >>,
                          !.performance_mutex_ =
                              IF @ = "worker" THEN "" ELSE @]
    /\ UNCHANGED orderLane
    /\ LocksUnchanged

\* an external thread calls one of the three operations
Call ==
    /\ run = "locks"
    /\ \E t \in Callers :
          /\ thr.pc[t] = "idle"
          /\ thr.calls < MaxCalls
          /\ thr' = [thr EXCEPT !.pc[t] = "called", !.calls = @ + 1]
    /\ UNCHANGED <<ee, orderLane>>
    /\ LocksUnchanged

\* resetPerformanceTracking: lock1(performance_mutex_)
ResetLock1 ==
    /\ run = "locks"
    /\ thr.pc["reset"] = "called"
    /\ thr.performance_mutex_ = ""
    /\ thr' = [thr EXCEPT !.pc["reset"] = "lock1", !.performance_mutex_ = "reset"]
    /\ UNCHANGED <<ee, orderLane>>
    /\ LocksUnchanged

\* resetPerformanceTracking: lock2(trades_mutex_)
ResetLock2 ==
    /\ run = "locks"
    /\ thr.pc["reset"] = "lock1"
    /\ thr.trades_mutex_ = ""
    /\ thr' = [thr EXCEPT !.pc["reset"] = "lock2", !.trades_mutex_ = "reset"]
    /\ UNCHANGED <<ee, orderLane>>
    /\ LocksUnchanged

\* resetPerformanceTracking: the body, and both locks released on return
ResetReturn ==
    /\ run = "locks"
    /\ thr.pc["reset"] = "lock2"
    /\ ee' = resetPerformanceTracking(ee)
    /\ thr' = [thr EXCEPT !.pc["reset"] = "idle",
                          !.trades_mutex_ = "", !.performance_mutex_ = ""]
    /\ UNCHANGED orderLane
    /\ LocksUnchanged

\* getPerformanceMetrics: performance_mutex_ locked, then the copy and the unlock
GetPerformanceMetrics ==
    /\ run = "locks"
    /\ \/ /\ thr.pc["metrics"] = "called"
          /\ thr.performance_mutex_ = ""
          /\ thr' = [thr EXCEPT !.pc["metrics"] = "locked",
                                !.performance_mutex_ = "metrics"]
       \/ /\ thr.pc["metrics"] = "locked"
          /\ thr' = [thr EXCEPT !.pc["metrics"] = "idle", !.performance_mutex_ = ""]
    /\ UNCHANGED <<ee, orderLane>>
    /\ LocksUnchanged

\* getTradeHistory: trades_mutex_ locked, then the copy and the unlock
GetTradeHistory ==
    /\ run = "locks"
    /\ \/ /\ thr.pc["history"] = "called"
          /\ thr.trades_mutex_ = ""
          /\ thr' = [thr EXCEPT !.pc["history"] = "locked",
                                !.trades_mutex_ = "history"]
       \/ /\ thr.pc["history"] = "locked"
          /\ thr' = [thr EXCEPT !.pc["history"] = "idle", !.trades_mutex_ = ""]
    /\ UNCHANGED <<ee, orderLane>>
    /\ LocksUnchanged

\* WorkerLockTrades can be taken: an order waits and trades_mutex_ is free
WorkerLockTradesEnabled ==
    /\ run = "locks"
    /\ thr.pc["worker"] = "idle"
    /\ orderLane # << >>
    /\ thr.trades_mutex_ = ""

\* WorkerUpdate can be taken: the worker holds performance_mutex_, or is about
\* to return without it
WorkerUpdateEnabled ==
    /\ run = "locks"
    /\ \/ thr.pc["worker"] = "performance"
       \/ thr.pc["worker"] = "stored" /\ thr.execution[1].status # FILLED

NextLocks ==
    \/ OrderArrivesLocks
    \/ Call
    \/ WorkerLockTrades
    \/ WorkerStore
    \/ WorkerLockPerformance
    \/ WorkerUpdate
    \/ ResetLock1
    \/ ResetLock2
    \/ ResetReturn
    \/ GetPerformanceMetrics
    \/ GetTradeHistory

\* every thread that can take a step eventually takes one (weak fairness of
\* each step, written out for the two steps that run a handler); the external
\* threads make finitely many calls
SpecLocks ==
    /\ InitLocks
    /\ [][NextLocks]_vars
    /\ WF_vars(WorkerStore)
    /\ WF_vars(WorkerLockPerformance)
    /\ WF_vars(ResetLock1)
    /\ WF_vars(ResetLock2)
    /\ WF_vars(ResetReturn)
    /\ WF_vars(GetPerformanceMetrics)
    /\ WF_vars(GetTradeHistory)
    /\ ([]<>~WorkerLockTradesEnabled \/ []<><<WorkerLockTrades>>_vars)
    /\ ([]<>~WorkerUpdateEnabled \/ []<><<WorkerUpdate>>_vars)

----------------------------------------------------------------------------
(* One lane of the mock transport (MockAeron.h, the transport of a MOCK_AERON
   build): a Publication and a Subscription for the same channel and stream,
   carrying tick records.  mock.offered lists the records whose offer reported
   success, mock.delivered the records poll handed to the handler *)

MaxLaneOps == 3

\* the default of Subscription::poll's parameter
maxMessages == 10

LaneTicks ==
    {[timestamp |-> TsUnit, price |-> Px(100), volume |-> Px(1000), symbol |-> "EURUSD"],
     [timestamp |-> 2 * TsUnit, price |-> Px(101), volume |-> Px(2000), symbol |-> "EURUSD"],
     [timestamp |-> 2 * TsUnit, price |-> Px(99), volume |-> Px(1000), symbol |-> "GBPUSD"]}

\* the bytes of a MarketDataMessage, field after field
Serialize(m) == <<m.timestamp, m.price, m.volume, m.symbol>>

\* the memcpy of processMarketData into a MarketDataMessage
Deserialize(bytes) ==
    [timestamp |-> bytes[1], price |-> bytes[2], volume |-> bytes[3], symbol |-> bytes[4]]

InitLane ==
    /\ MdpIdle
    /\ thr = NoThreads
    /\ StagesIdle
    /\ run = "lane"
    /\ script = << >>
    /\ dc = DCIndicator(Theta0004)
    /\ fresh = dc
    /\ ret = DCEvent
    /\ tick = MarketDataPoint(0, NaN)
    /\ events = << >>
    /\ fevents = << >>
    /\ hist = HistInit

\* Publication::offer: returns length, a success, and keeps nothing
Offer ==
    /\ run = "lane"
    /\ Len(mock.offered) + Len(mock.messageQueue) + Len(mock.delivered) < MaxLaneOps
    /\ \E m \in LaneTicks :
       \E result \in {MarketDataMessageSize} :
          mock' = [mock EXCEPT !.offered = IF result > 0 THEN Append(@, m) ELSE @]
    /\ UNCHANGED <<se, orderLane, seTrace, ee, eeTrace, run, script, thr>>
    /\ UNCHANGED mdpVars
    /\ UNCHANGED detVars

\* Subscription::injectMessage
InjectMessage ==
    /\ run = "lane"
    /\ Len(mock.offered) + Len(mock.messageQueue) + Len(mock.delivered) < MaxLaneOps
    /\ \E m \in LaneTicks :
          mock' = [mock EXCEPT !.messageQueue = Append(@, Serialize(m))]
    /\ UNCHANGED <<se, orderLane, seTrace, ee, eeTrace, run, script, thr>>
    /\ UNCHANGED mdpVars
    /\ UNCHANGED detVars

\* Subscription::poll: up to maxMessages queued messages go to the handler, oldest
\* first
Poll ==
    /\ run = "lane"
    /\ LET processed == IF Len(mock.messageQueue) < maxMessages
                        THEN Len(mock.messageQueue) ELSE maxMessages
       IN  mock' = [mock EXCEPT
                      !.delivered = @ \o [i \in 1..processed |->
                                             Deserialize(mock.messageQueue[i])],
                      !.messageQueue = SubSeq(@, processed + 1, Len(@))]
    /\ UNCHANGED <<se, orderLane, seTrace, ee, eeTrace, run, script, thr>>
    /\ UNCHANGED mdpVars
    /\ UNCHANGED detVars

NextLane == Offer \/ InjectMessage \/ Poll

\* the subscriber's worker polls for as long as it runs
SpecLane == InitLane /\ [][NextLane]_vars /\ WF_vars(Poll)

----------------------------------------------------------------------------
(* Properties of the detector *)

\* a step that feeds one tick to dc
TickStep == hist'.nticks = hist.nticks + 1

\* the whole of a scenario has been fed to a detector fresh from construction or reset()
Fed(name) == run = name /\ script = << >> /\ hist.nticks = Len(ScenarioPrices(name))

EventAt(i) == events[i][2]

\* C1: DC transition rule.  For theta > 0, in every state after the first tick and
\* for every tick with a finite positive price: with the trend unknown or up a
\* downturn is emitted and the trend set to down exactly when price <= extreme and
\* (extreme - price) / extreme >= theta; with the trend down an upturn is emitted
\* and the trend set to up exactly when price >= extreme and
\* (price - extreme) / extreme >= theta; otherwise no event is emitted and the
\* trend is unchanged; a tick that sets a new extreme emits no event.
C1_TransitionRule ==
    [][ (TickStep /\ hist.nticks >= 1 /\ DGt(dc.theta_, Zero) /\ PosFinite(tick'.price)) =>
        LET E == dc.extreme_price_
            p == tick'.price
            th == dc.theta_
            downRule == DLe(p, E) /\ DGe(DDiv(DSub(E, p), E), th)
            upRule == DGe(p, E) /\ DGe(DDiv(DSub(p, E), E), th)
            newExtreme == IF dc.current_trend_ >= 0 THEN DGt(p, E) ELSE DLt(p, E)
        IN  /\ dc.current_trend_ \in {-1, 0, 1}
            /\ dc.current_trend_ \in {0, 1} =>
                  IF downRule
                  THEN ret'.type = DOWNTURN /\ dc'.current_trend_ = -1
                  ELSE ret'.type = NONE /\ dc'.current_trend_ = dc.current_trend_
            /\ dc.current_trend_ = -1 =>
                  IF upRule
                  THEN ret'.type = UPTURN /\ dc'.current_trend_ = 1
                  ELSE ret'.type = NONE /\ dc'.current_trend_ = dc.current_trend_
            /\ newExtreme => ret'.type = NONE
      ]_vars

\* C1 witness: an upturn has just been emitted on a rise of exactly theta
C1_Witness ==
    /\ hist.nticks >= 3
    /\ DGt(dc.theta_, Zero)
    /\ ret.type = UPTURN
    /\ dc.current_trend_ = 1
    /\ DEq(DDiv(DSub(ret.price, dc.last_dc_price_), dc.last_dc_price_), dc.theta_)

\* C2 (as stated): every emitted event carries
\* tmv_ext = |extreme - previous extreme| / (previous extreme * theta), 0 when the
\* previous extreme is 0; scenario A's single event has tmv_ext = 3.
C2_TmvBetweenExtremes ==
    [][ /\ (TickStep /\ ret'.type # NONE /\ DGt(dc.theta_, Zero)) =>
              ret'.tmv_ext =
                  IF DEq(dc.last_dc_price_, Zero) THEN Zero
                  ELSE DDiv(DAbs(DSub(dc.extreme_price_, dc.last_dc_price_)),
                            DMul(dc.last_dc_price_, dc.theta_))
        /\ Fed("A")' => (Len(events') = 1 /\ events'[1][2].tmv_ext = Px(3))
      ]_vars

\* C3 (as stated): every emitted event has duration = timestamp of the extreme it
\* closes - timestamp of the previously closed extreme (the seed tick before any
\* event), and the duration is strictly positive when the stream's timestamps
\* are non-decreasing.
C3_DurationPositive ==
    [][ (TickStep /\ ret'.type # NONE) =>
        LET newExtreme == IF dc.current_trend_ >= 0
                          THEN DGt(tick'.price, dc.extreme_price_)
                          ELSE DLt(tick'.price, dc.extreme_price_)
            closedTs == IF newExtreme THEN tick'.timestamp ELSE dc.extreme_timestamp_
        IN  /\ ret'.duration = closedTs - dc.last_dc_timestamp_
            /\ hist'.tsMono => ret'.duration > 0
      ]_vars

\* C3 (amended): every emitted event has duration = timestamp of the extreme it
\* closes - timestamp of the previously closed extreme (the seed tick before any
\* event), and the duration is >= 0 when the stream's timestamps are
\* non-decreasing (it is 0 when the closed extreme is the seed tick).
C3_DurationNonNegative ==
    [][ (TickStep /\ ret'.type # NONE) =>
        LET newExtreme == IF dc.current_trend_ >= 0
                          THEN DGt(tick'.price, dc.extreme_price_)
                          ELSE DLt(tick'.price, dc.extreme_price_)
            closedTs == IF newExtreme THEN tick'.timestamp ELSE dc.extreme_timestamp_
        IN  /\ ret'.duration = closedTs - dc.last_dc_timestamp_
            /\ hist'.tsMono => ret'.duration >= 0
      ]_vars

\* C3 witness: a stream with non-decreasing timestamps has emitted an event of
\* duration 0 and then one of positive duration
C3_Witness ==
    /\ hist.tsMono
    /\ Len(events) >= 2
    /\ EventAt(1).duration = 0
    /\ EventAt(2).duration > 0

\* C4: for theta > 0 and finite positive prices every emitted event has
\* tmv_ext >= 1.
C4_TmvAtLeastOne ==
    DGt(dc.theta_, Zero) =>
        \A i \in 1..Len(events) : DGe(EventAt(i).tmv_ext, Px(1))

\* C4 witness: events with tmv_ext = 1 and with tmv_ext > 1 have been emitted
C4_Witness ==
    /\ DGt(dc.theta_, Zero)
    /\ \E i \in 1..Len(events) : DEq(EventAt(i).tmv_ext, Px(1))
    /\ \E i \in 1..Len(events) : DGt(EventAt(i).tmv_ext, Px(1))

\* C5 (as stated): scenario B (theta = 0.01; 100, 99, 98, 97, 98.5) emits exactly
\* one event, an upturn at the tick priced 98.5.
C5_ScenarioB_OneUpturn ==
    Fed("B") =>
        /\ Len(events) = 1
        /\ EventAt(1).type = UPTURN
        /\ EventAt(1).price = Fin(985, 10)

\* C5 (amended): scenario B emits exactly two events: a downturn at tick 2
\* (price 99.0, a fall of exactly theta from the seed 100.0) and an upturn at
\* tick 5 (price 98.5).
C5_ScenarioB_DownturnThenUpturn ==
    Fed("B") =>
        /\ Len(events) = 2
        /\ events[1][1] = 2 /\ EventAt(1).type = DOWNTURN /\ EventAt(1).price = Px(99)
        /\ events[2][1] = 5 /\ EventAt(2).type = UPTURN /\ EventAt(2).price = Fin(985, 10)

\* C5 witness: scenario B has been fed whole
C5_Witness == Fed("B") /\ dc.current_trend_ = 1

\* C6: scenario A (theta = 0.01; 100, 101, 102, 103, 101.5) emits exactly one
\* event, a downturn at the tick priced 101.5, of duration 3 000 000 ns.
C6_ScenarioA ==
    Fed("A") =>
        /\ Len(events) = 1
        /\ events[1][1] = 5
        /\ EventAt(1).type = DOWNTURN
        /\ EventAt(1).price = Fin(1015, 10)
        /\ EventAt(1).duration = 3000000

\* C6 witness: scenario A has been fed whole
C6_Witness == Fed("A") /\ dc.current_trend_ = -1

\* C7: scenario D (theta = 0.01; 100, 102, 100.8, 102.5, 101.2) emits exactly
\* three events: a downturn at tick 3, an upturn at tick 4, a downturn at tick 5.
C7_ScenarioD ==
    Fed("D") =>
        /\ Len(events) = 3
        /\ events[1][1] = 3 /\ EventAt(1).type = DOWNTURN /\ EventAt(1).price = Fin(1008, 10)
        /\ events[2][1] = 4 /\ EventAt(2).type = UPTURN /\ EventAt(2).price = Fin(1025, 10)
        /\ events[3][1] = 5 /\ EventAt(3).type = DOWNTURN /\ EventAt(3).price = Fin(1012, 10)

\* C7 witness: scenario D has been fed whole
C7_Witness == Fed("D") /\ dc.last_dc_event_.type = DOWNTURN

\* C8: a fresh detector emits no event on its first tick, and none as long as no
\* tick lies theta or more below the running maximum of the prices seen so far;
\* scenario C (100, 100.5, 101, 100.8, 101.2, 101.8, 101.5, 102) emits no event
\* with theta = 0.01 and with theta = 0.004.
C8_NoEventWithoutDrop ==
    /\ (hist.nticks <= 1 \/ hist.noDrop) => events = << >>
    /\ (Fed("C") \/ Fed("C004")) => events = << >>

\* C8 witness: scenario C has been fed whole with theta = 0.004, no tick having
\* lain theta below the running maximum
C8_Witness == Fed("C004") /\ hist.noDrop /\ dc.theta_ = Theta0004

\* C10: after reset() the detector emits, on any tick sequence, the same events
\* (kind, timestamp, price, tmv_ext, duration, time_adjusted_return) as a
\* freshly constructed detector with the same theta, whatever it processed before.
C10_ResetEquivalence == events = fevents

\* C10 witness: a detector that had emitted events was reset and has emitted
\* events again
C10_Witness == hist.prior > 0 /\ events # << >> /\ hist.total > hist.nticks

\* C9: for every tick the market-data processor consumes, the detector is invoked
\* exactly once and at most one DC signal is offered: exactly one when the
\* returned event is an upturn or a downturn, none when it is none.
C9_OneOfferPerEvent ==
    mdpTrace.length >= MarketDataMessageSize =>
        /\ mdpTrace.calls = 1
        /\ mdpTrace.kind = ret.type
        /\ mdpTrace.offers = (IF ret.type \in {UPTURN, DOWNTURN} THEN 1 ELSE 0)
        /\ mdpTrace.accepted <= mdpTrace.offers
        /\ statistics.messages_processed = hist.nticks
        /\ statistics.dc_events_detected = Len(events)
        /\ Len(signalLane) <= Len(events)
        /\ \A i \in 1..Len(signalLane) : signalLane[i].msg.event_type # NONE

\* C9 witness: ticks without an event and ticks with an event have been consumed,
\* and the last one emitted an event whose offer the publication refused
C9_Witness ==
    /\ mdpTrace.length >= MarketDataMessageSize
    /\ mdpTrace.offers = 1 /\ mdpTrace.accepted = 0
    /\ statistics.messages_processed > statistics.dc_events_detected + 1
    /\ signalLane # << >>

\* C11 (as stated): a tick whose price is NaN, +inf or -inf is rejected silently
\* in every state (before the first tick, trend unknown, up or down): the
\* returned event is none and no detector field changes.
C11_NonFiniteRejected ==
    [][ (TickStep /\ ~isfinite(tick'.price)) =>
            (ret'.type = NONE /\ dc' = dc) ]_vars

----------------------------------------------------------------------------
(* Properties of the strategy engine *)

C14_QuantityBounds ==
    \A i \in 1..Len(orderLane) :
        LET o == orderLane[i].msg
        IN  DGt(o.price, Zero) =>
                /\ DGe(o.quantity, Px(1))
                /\ DLe(DMul(o.quantity, o.price), Px(10000))

----------------------------------------------------------------------------
(* Properties of the execution engine *)

RECURSIVE DSum(_)
DSum(xs) == IF xs = << >> THEN Zero ELSE DAdd(Head(xs), DSum(Tail(xs)))

\* C19 (as stated): position-aware P&L.  Every buy is attributed trade_pnl = 0
\* (the average entry price being updated by quantity-weighted average); every
\* sell is attributed
\* trade_pnl = (executed_price - avg_entry_price) * min(position_qty, executed_quantity),
\* so a sell made while no long position is held realises a trade_pnl of 0.
C19_PositionAwarePnL ==
    (eeTrace.length >= TradingOrderSize /\ eeTrace.status = FILLED) =>
        LET b == eeTrace.bookBefore
            held == IF DGt(b.position_qty, Zero) THEN b.position_qty ELSE Zero
            closed == IF DLt(eeTrace.executed_quantity, held)
                      THEN eeTrace.executed_quantity ELSE held
        IN  /\ eeTrace.signal = BUY => eeTrace.trade_pnl = Zero
            /\ eeTrace.signal = SELL =>
                   eeTrace.trade_pnl =
                       DMul(DSub(eeTrace.executed_price, b.avg_entry_price), closed)

\* C20 (as stated): in every reachable state of the execution engine, for any
\* sequence of setInitialCapital, processed orders and resetPerformanceTracking
\* calls, total_pnl equals the sum of trade_pnl over the filled trades processed
\* since construction or the last reset, and current_capital - initial_capital
\* equals total_pnl.
C20_CapitalMatchesPnL ==
    /\ ee.performance_metrics_.total_pnl = DSum(eeTrace.pnls)
    /\ DSub(ee.current_capital_, ee.initial_capital_) = ee.performance_metrics_.total_pnl

\* C21: winning_trades + losing_trades <= total_trades in every state, and a
\* filled trade counts in total_trades and, by the sign of its trade_pnl, in
\* winning_trades (> 0), in losing_trades (< 0) or in neither (= 0)
C21_TradeCounts ==
    /\ [](ee.performance_metrics_.winning_trades + ee.performance_metrics_.losing_trades
            <= ee.performance_metrics_.total_trades)
    /\ [][(/\ orderLane # << >>
           /\ orderLane' = Tail(orderLane)
           /\ eeTrace'.length >= TradingOrderSize
           /\ eeTrace'.status = FILLED)
          => LET m == ee.performance_metrics_
                 n == ee'.performance_metrics_
                 won == IF DGt(eeTrace'.trade_pnl, Zero) THEN 1 ELSE 0
                 lost == IF DLt(eeTrace'.trade_pnl, Zero) THEN 1 ELSE 0
             IN  /\ n.total_trades = m.total_trades + 1
                 /\ n.winning_trades = m.winning_trades + won
                 /\ n.losing_trades = m.losing_trades + lost]_vars

\* a winning, a losing and a flat trade have been counted
C21_Witness ==
    /\ ee.performance_metrics_.winning_trades = 1
    /\ ee.performance_metrics_.losing_trades = 1
    /\ ee.performance_metrics_.total_trades = 3

\* C22: peak_capital is a running maximum of current_capital: a processed trade
\* never lowers it, and after the trade it is the larger of its old value and
\* the new capital, so peak_capital >= current_capital
C22_PeakIsRunningMax ==
    [][(/\ orderLane # << >>
        /\ orderLane' = Tail(orderLane))
       => /\ DGe(ee'.peak_capital_, ee.peak_capital_)
          /\ DGe(ee'.peak_capital_, ee'.current_capital_)
          /\ ee'.peak_capital_ = (IF DGt(ee'.current_capital_, ee.peak_capital_)
                                  THEN ee'.current_capital_ ELSE ee.peak_capital_)]_vars

\* a gain has raised the peak and a loss has then left the capital under it
C22_Witness ==
    /\ DGt(ee.peak_capital_, ee.initial_capital_)
    /\ DLt(ee.current_capital_, ee.peak_capital_)
    /\ ee.performance_metrics_.total_trades >= 2

\* C23 (as stated): whatever orders are processed, max_drawdown is within [0, 1]
\* in every state, and between resets it never decreases
C23_DrawdownInUnitInterval ==
    /\ [](/\ DGe(ee.performance_metrics_.max_drawdown, Zero)
          /\ DLe(ee.performance_metrics_.max_drawdown, Px(1)))
    /\ [][(/\ orderLane # << >>
           /\ orderLane' = Tail(orderLane))
          => DGe(ee'.performance_metrics_.max_drawdown,
                 ee.performance_metrics_.max_drawdown)]_vars

\* C24: the window of returns never holds more than 252 entries; it holds
\* trade_pnl / initial_capital of the most recent min(n, 252) of the n filled
\* trades since the last reset, oldest first
C24_ReturnsWindow ==
    LET n == Len(eeTrace.pnls)
        k == IF n < ReturnsWindow THEN n ELSE ReturnsWindow
    IN  /\ Len(ee.daily_returns_) <= ReturnsWindow
        /\ ee.daily_returns_ =
              [i \in 1..k |-> DDiv(eeTrace.pnls[n - k + i], ee.initial_capital_)]

\* more than 252 filled trades, the last two of them with a P&L other than 0
C24_Witness ==
    /\ ee.performance_metrics_.total_trades > ReturnsWindow
    /\ Len(ee.daily_returns_) = ReturnsWindow
    /\ ee.daily_returns_[ReturnsWindow] # Zero
    /\ ee.daily_returns_[ReturnsWindow - 1] # Zero

----------------------------------------------------------------------------
(* Properties of the stages' handling of their lanes *)

C16_ShortFragmentDropped ==
    [][((/\ tickLane # << >>
         /\ tickLane' = Tail(tickLane))
        => IF Head(tickLane).length < MarketDataMessageSize
           THEN /\ dc' = dc
                /\ statistics' = statistics
                /\ signalLane' = signalLane
                /\ mdpTrace'.offers = 0
           ELSE (mdpTrace.length > 0 /\ mdpTrace.length < MarketDataMessageSize)
                => /\ statistics'.messages_processed =
                         statistics.messages_processed + 1
                   /\ dc' = processDataPoint(dc,
                                MarketDataPoint(Head(tickLane).msg.timestamp,
                                                Head(tickLane).msg.price)).dc)
       /\
       ((/\ run = "se"
         /\ signalLane # << >>
         /\ signalLane' = Tail(signalLane))
        => IF Head(signalLane).length < DCSignalMessageSize
           THEN /\ se' = se
                /\ orderLane' = orderLane
                /\ seTrace'.offers = 0
           ELSE (seTrace.length > 0 /\ seTrace.length < DCSignalMessageSize)
                => /\ se'.statistics_.signals_processed =
                         se.statistics_.signals_processed + 1
                   /\ seTrace'.signal = generateTradingSignal(Head(signalLane).msg))
       /\
       ((/\ run = "ee"
         /\ orderLane # << >>
         /\ orderLane' = Tail(orderLane))
        => IF Head(orderLane).length < TradingOrderSize
           THEN ee' = ee
           ELSE (eeTrace.length > 0 /\ eeTrace.length < TradingOrderSize)
                => /\ Len(ee'.trade_history_) = Len(ee.trade_history_) + 1
                   /\ ee'.order_counter_ = ee.order_counter_ + 1
                   /\ ee'.trade_history_[Len(ee'.trade_history_)].signal =
                         Head(orderLane).msg.signal)]_vars

\* the execution engine, holding an executed trade, has just dropped a short
\* fragment
C16_Witness ==
    /\ run = "ee"
    /\ eeTrace.length > 0
    /\ eeTrace.length < TradingOrderSize
    /\ Len(ee.trade_history_) > 0
    /\ ee.performance_metrics_.total_trades > 0

----------------------------------------------------------------------------
(* Properties of the composed pipeline *)

\* C13: in the pipeline every DOWNTURN signal the strategy engine receives from
\* the detector makes it offer a SELL order and every UPTURN signal a BUY order
C13_EventTriggersOrder ==
    run = "pipeline" =>
        /\ seTrace.kind = DOWNTURN => seTrace.signal = SELL /\ seTrace.offers = 1
        /\ seTrace.kind = UPTURN => seTrace.signal = BUY /\ seTrace.offers = 1

\* C17: records keep their order and are handled at most once: the DC signals on
\* their lane are in the order of their ticks, the orders in the order of their DC
\* signals, trade_history in the order of the orders (numbered 1, 2, ...), what
\* has gone further down the pipeline stems from earlier ticks than what waits,
\* and the DC signal offered for a tick carries that tick's timestamp and is
\* computed from the detector's state before the tick and the tick alone
C17_LaneOrder ==
    /\ [](/\ \A i, j \in 1..Len(signalLane) :
                i < j => signalLane[i].msg.timestamp < signalLane[j].msg.timestamp
          /\ \A i, j \in 1..Len(orderLane) :
                i < j => orderLane[i].msg.dc_timestamp < orderLane[j].msg.dc_timestamp
          /\ \A i, j \in 1..Len(ee.trade_history_) :
                /\ ee.trade_history_[i].order_id = i
                /\ i < j => ee.trade_history_[i].dc_timestamp <
                                ee.trade_history_[j].dc_timestamp
          /\ \A i \in 1..Len(ee.trade_history_), j \in 1..Len(orderLane) :
                ee.trade_history_[i].dc_timestamp < orderLane[j].msg.dc_timestamp
          /\ \A i \in 1..Len(orderLane), j \in 1..Len(signalLane) :
                orderLane[i].msg.dc_timestamp < signalLane[j].msg.timestamp
          /\ \A i \in 1..Len(signalLane), j \in 1..Len(tickLane) :
                signalLane[i].msg.timestamp < tickLane[j].msg.timestamp)
    /\ [][(/\ tickLane # << >>
           /\ tickLane' = Tail(tickLane)
           /\ Len(signalLane') > Len(signalLane))
          => /\ signalLane' = Append(signalLane, signalLane'[Len(signalLane')])
             /\ signalLane'[Len(signalLane')].msg.timestamp =
                   Head(tickLane).msg.timestamp
             /\ signalLane'[Len(signalLane')].msg =
                   DCSignalMessage(
                       processDataPoint(dc,
                           MarketDataPoint(Head(tickLane).msg.timestamp,
                                           Head(tickLane).msg.price)).event)]_vars

\* two orders executed, stemming from two upturns
C17_Witness ==
    /\ run = "pipeline"
    /\ Len(ee.trade_history_) >= 2
    /\ statistics.dc_events_detected >= 4

----------------------------------------------------------------------------
(* Properties of a lane *)

\* C18: a tick record whose offer reported success is later delivered by poll to
\* the subscriber of the same channel and stream, with the fields it was
\* published with
C18_RoundTrip ==
    \A m \in LaneTicks :
        (\E i \in 1..Len(mock.offered) : mock.offered[i] = m)
            ~> (\E i \in 1..Len(mock.delivered) : mock.delivered[i] = m)

----------------------------------------------------------------------------
(* Properties of the threads *)

\* C25 (as stated): a reset is atomic with respect to the worker: whenever the
\* worker is outside processOrder and no reset is under way, the number of filled
\* executions in trade_history equals total_trades; and a reset made while the
\* worker is outside processOrder leaves total_trades = 0, total_pnl = 0, an
\* empty trade history and current_capital = peak_capital = initial_capital
C25_ResetAtomic ==
    /\ []((thr.worker = "idle" /\ thr.reset = "idle") =>
             Cardinality({i \in 1..Len(ee.trade_history_) :
                             ee.trade_history_[i].status = FILLED})
                 = ee.performance_metrics_.total_trades)
    /\ [][(thr.reset = "locked" /\ thr'.reset = "idle" /\ thr.worker = "idle")
          => /\ ee'.performance_metrics_.total_trades = 0
             /\ ee'.performance_metrics_.total_pnl = Zero
             /\ ee'.trade_history_ = << >>
             /\ ee'.current_capital_ = ee'.initial_capital_
             /\ ee'.peak_capital_ = ee'.initial_capital_]_vars

\* C26 (as stated): start() and stop() are idempotent for every sequence and
\* interleaving of calls on one stage: at most one worker thread of the stage is
\* alive at any time, and a start() launches a thread only when no worker is
\* alive, the thread it launches then being the one worker alive
C26_StartStopIdempotent ==
    /\ [](Cardinality(Alive(thr)) <= 1)
    /\ [][Len(thr'.worker) > Len(thr.worker)
            => Alive(thr) = {} /\ Alive(thr') = {Len(thr'.worker)}]_vars

\* C27: stop() terminates.  Once stop() has cleared running_ the worker handles
\* at most the poll in progress, at most fragmentLimit records; a stop() that
\* waits in join returns; and once stop() has returned no worker of the stage is
\* alive and, until a later start(), the stage takes no record from its lane,
\* changes no statistic, does not change the detector and publishes nothing
C27_StopTerminates ==
    /\ [](~thr.running_ => thr.sinceClear <= fragmentLimit)
    /\ [](thr.stopped => Alive(thr) = {} /\ ~thr.running_)
    /\ [][thr.stopped /\ thr'.stopped
            => /\ statistics' = statistics
               /\ dc' = dc
               /\ signalLane' = signalLane
               /\ Len(tickLane') >= Len(tickLane)]_vars
    /\ (\E c \in DOMAIN thr.pc : thr.pc[c] = "join") ~> thr.stopped

\* stop() has returned after the worker finished a poll of fragmentLimit records
\* that was in progress when the flag was cleared, and records are left
C27_Witness ==
    /\ run = "stop"
    /\ thr.stopped
    /\ thr.sinceClear = fragmentLimit
    /\ tickLane # << >>
    /\ statistics.messages_processed >= fragmentLimit

\* C28 (as stated): an exception raised while a worker handles a record is
\* caught at that worker's loop boundary: the worker has left its loop, the
\* process keeps running, and the supervisor then stops the remaining stages and
\* shuts down in order
C28_ExceptionCaught ==
    /\ [](thr.threw # {} => thr.process # "terminated")
    /\ (thr.threw # {}) ~> (thr.main = "done" /\ thr.exit = 0
                               /\ \A st \in Stages : thr.stage[st] = "stopped")

\* C29 (as stated): init failure is fatal and terminates: if an endpoint never
\* reports connected, main eventually exits with a non-zero exit code, and a
\* main that exits with a non-zero code has started no worker
C29_InitFailureFatal ==
    /\ \A i \in DOMAIN Endpoints :
          <>(Endpoints[i] \in thr.connected \/ thr.exit > 0)
    /\ [](thr.exit > 0 => \A st \in Stages : thr.stage[st] = "constructed")

\* C30 (as stated): a change of theta applies from the next tick, never
\* retroactively: every signal the processor publishes is the event that
\* processDataPoint computes for the tick with a single theta, the one before or
\* the one after the change, and the signals already published are not altered
C30_SingleTheta ==
    [][Len(signalLane') > Len(signalLane)
        => /\ SubSeq(signalLane', 1, Len(signalLane)) = signalLane
           /\ \E theta \in {dc.theta_, dc'.theta_} :
                 signalLane'[Len(signalLane')].msg =
                     DCSignalMessage(
                         processDataPoint(
                             [dc EXCEPT !.theta_ = theta],
                             MarketDataPoint(Head(tickLane).msg.timestamp,
                                             Head(tickLane).msg.price)).event)]_vars

----------------------------------------------------------------------------
(* Properties of the detector's state *)

\* C33 (as stated): state rotation.  Immediately after processDataPoint emits an
\* event on a tick, the previous extreme (price and timestamp) equals the
\* running extreme held just before the rotation, the running extreme equals the
\* tick, and getLastDCEvent() returns that event; on every tick that emits no
\* event the previous extreme and the last event are unchanged
C33_StateRotation ==
    [][TickStep =>
        LET newExtreme == IF dc.current_trend_ >= 0
                          THEN DGt(tick'.price, dc.extreme_price_)
                          ELSE DLt(tick'.price, dc.extreme_price_)
        IN  IF ret'.type # NONE
            THEN /\ dc'.last_dc_price_ =
                       (IF newExtreme THEN tick'.price ELSE dc.extreme_price_)
                 /\ dc'.last_dc_timestamp_ =
                       (IF newExtreme THEN tick'.timestamp ELSE dc.extreme_timestamp_)
                 /\ dc'.extreme_price_ = tick'.price
                 /\ dc'.extreme_timestamp_ = tick'.timestamp
                 /\ dc'.last_dc_event_ = ret'
            ELSE /\ dc'.last_dc_price_ = dc.last_dc_price_
                 /\ dc'.last_dc_timestamp_ = dc.last_dc_timestamp_
                 /\ dc'.last_dc_event_ = dc.last_dc_event_
      ]_vars

\* C33 (amended): as stated for the ticks that emit an event; a tick that emits
\* no event leaves the previous extreme and the last event unchanged unless it
\* is the first tick after construction or reset(), which seeds the previous
\* extreme with its own price and timestamp and leaves the last event unchanged
C33_StateRotationAfterSeed ==
    [][TickStep =>
        LET newExtreme == IF dc.current_trend_ >= 0
                          THEN DGt(tick'.price, dc.extreme_price_)
                          ELSE DLt(tick'.price, dc.extreme_price_)
        IN  IF ret'.type # NONE
            THEN /\ dc'.last_dc_price_ =
                       (IF newExtreme THEN tick'.price ELSE dc.extreme_price_)
                 /\ dc'.last_dc_timestamp_ =
                       (IF newExtreme THEN tick'.timestamp ELSE dc.extreme_timestamp_)
                 /\ dc'.extreme_price_ = tick'.price
                 /\ dc'.extreme_timestamp_ = tick'.timestamp
                 /\ dc'.last_dc_event_ = ret'
            ELSE IF hist.nticks = 0
                 THEN /\ dc'.last_dc_price_ = tick'.price
                      /\ dc'.last_dc_timestamp_ = tick'.timestamp
                      /\ dc'.last_dc_event_ = dc.last_dc_event_
                 ELSE /\ dc'.last_dc_price_ = dc.last_dc_price_
                      /\ dc'.last_dc_timestamp_ = dc.last_dc_timestamp_
                      /\ dc'.last_dc_event_ = dc.last_dc_event_
      ]_vars

\* C33 witness: the second event has just been emitted; the extreme it closed
\* was set on an earlier tick than the one that emitted it, and is now the
\* previous extreme
C33_Witness ==
    /\ run = "free"
    /\ Len(events) = 2
    /\ ret.type # NONE
    /\ dc.last_dc_event_ = ret
    /\ dc.last_dc_timestamp_ # tick.timestamp
    /\ dc.last_dc_price_ # tick.price
    /\ dc.extreme_price_ = tick.price

\* C34: for theta > 0 and finite positive prices, extreme_price is the maximum
\* (trend up or unknown) or the minimum (trend down) of the prices of the ticks
\* since and including the tick that confirmed the last event, or since the
\* first tick if there was no event.  Tick by tick: the first tick and a tick
\* that confirms an event start the stretch, and extreme_price is that tick's
\* price; any other tick leaves extreme_price the larger, in a downtrend the
\* smaller, of its old value and the tick's price
C34_ExtremeOfStretch ==
    [][(TickStep /\ DGt(dc.theta_, Zero) /\ PosFinite(tick'.price)) =>
        dc'.extreme_price_ =
            IF hist.nticks = 0 \/ ret'.type # NONE THEN tick'.price
            ELSE IF dc'.current_trend_ >= 0
                 THEN (IF DGt(tick'.price, dc.extreme_price_)
                       THEN tick'.price ELSE dc.extreme_price_)
                 ELSE (IF DLt(tick'.price, dc.extreme_price_)
                       THEN tick'.price ELSE dc.extreme_price_)
      ]_vars

\* C34 witness: in the downtrend after the first event a later tick has set a
\* lower extreme than the tick that confirmed the event
C34_Witness ==
    /\ run = "free"
    /\ DGt(dc.theta_, Zero)
    /\ dc.current_trend_ = -1
    /\ Len(events) = 1
    /\ ret.type = NONE
    /\ dc.extreme_price_ = tick.price
    /\ DLt(dc.extreme_price_, EventAt(1).price)

\* C35: for theta > 0 and finite positive prices every event emitted, upturn or
\* downturn, has time_adjusted_return >= 0: it is tmv_ext * theta / (duration in
\* seconds) with tmv_ext >= 0, or 0 when duration <= 0
C35_ReturnNonNegative ==
    DGt(dc.theta_, Zero) =>
        \A i \in 1..Len(events) :
            /\ DGe(EventAt(i).time_adjusted_return, Zero)
            /\ DGe(EventAt(i).tmv_ext, Zero)
            /\ EventAt(i).time_adjusted_return =
                   IF EventAt(i).duration <= 0 THEN Zero
                   ELSE DDiv(DMul(EventAt(i).tmv_ext, dc.theta_),
                             DDiv(ToDouble(EventAt(i).duration), ToDouble(1000000000)))

\* C35 witness: a downturn with a positive return and an event with a negative
\* duration have been emitted
C35_Witness ==
    /\ DGt(dc.theta_, Zero)
    /\ \E i \in 1..Len(events) :
          /\ EventAt(i).type = DOWNTURN
          /\ DGt(EventAt(i).time_adjusted_return, Zero)
    /\ \E i \in 1..Len(events) : EventAt(i).duration < 0

\* C36: the events one detector emits strictly alternate in kind and the first
\* event after construction or reset() is a downturn; getCurrentTrend() is 0
\* exactly until the first event, then -1 after each downturn and +1 after each
\* upturn
C36_EventsAlternate ==
    /\ \A i \in 1..Len(events) :
          EventAt(i).type = IF i % 2 = 1 THEN DOWNTURN ELSE UPTURN
    /\ dc.current_trend_ =
          IF events = << >> THEN 0
          ELSE IF EventAt(Len(events)).type = DOWNTURN THEN -1 ELSE 1

\* C36 witness: after a reset() a detector with theta > 0 has emitted a downturn
\* and an upturn
C36_Witness ==
    /\ run = "free"
    /\ DGt(dc.theta_, Zero)
    /\ hist.total > hist.nticks
    /\ Len(events) = 2
    /\ dc.current_trend_ = 1

----------------------------------------------------------------------------
(* Properties of the stages' statistics and arithmetic *)

\* C32 (as stated): zero duration never propagates infinity or NaN.  For a DC
\* signal whose duration is 0 the detector's time_adjusted_return is 0, and the
\* strategy engine's volatility indicator evaluates to 0, so that with the
\* regime detection enabled the signal is classified as v = 0 is: low
\* volatility
C32_ZeroDuration ==
    [][(/\ signalLane # << >>
        /\ signalLane' = Tail(signalLane)
        /\ Head(signalLane).length >= DCSignalMessageSize
        /\ Head(signalLane).msg.duration = 0
        /\ se.hmm_enabled_)
       => /\ calculateTimeAdjustedReturn(dc.theta_, Head(signalLane).msg.tmv_ext,
                                         Head(signalLane).msg.duration) = Zero
          /\ se'.current_market_state_ = LOW_VOLATILITY
          /\ se'.statistics_.current_market_state = LOW_VOLATILITY]_vars

\* ExecutionEngine::ExecutionEngine, then the capital it is given: a newly
\* constructed engine that runs on `capital`
NewEngine(capital) ==
    [ExecutionEngine EXCEPT !.initial_capital_ = capital,
                            !.current_capital_ = capital,
                            !.peak_capital_ = capital]

\* the engine e after updatePerformanceMetrics on each execution of S in turn
RECURSIVE GivenExecutions(_, _)
GivenExecutions(e, S) ==
    IF S = << >> THEN e
    ELSE GivenExecutions(updatePerformanceMetrics(e, Head(S)), Tail(S))

\* the performance figures a caller can read off an engine
MetricsOf(e) ==
    [total_pnl |-> e.performance_metrics_.total_pnl,
     total_trades |-> e.performance_metrics_.total_trades,
     winning_trades |-> e.performance_metrics_.winning_trades,
     losing_trades |-> e.performance_metrics_.losing_trades,
     win_rate |-> e.performance_metrics_.win_rate,
     max_drawdown |-> e.performance_metrics_.max_drawdown,
     capital |-> e.current_capital_]

\* C38 (as stated): after resetPerformanceTracking the engine behaves like a
\* newly constructed one.  Once the engine has been reset, and runs on its
\* initial capital, its total_pnl, trade counts, win_rate, max_drawdown and
\* capital are those of a new engine with the same initial capital that was
\* given the executions since the reset (the same orders at the same executed
\* prices), whatever orders were processed before the reset
C38_ResetLikeNew ==
    (/\ run = "ee"
     /\ eeTrace.resets > 0
     /\ DSub(ee.current_capital_, ee.performance_metrics_.total_pnl) = ee.initial_capital_)
    => MetricsOf(ee) = MetricsOf(GivenExecutions(NewEngine(ee.initial_capital_),
                                                 ee.trade_history_))

\* C40 (as stated): with lanes that neither duplicate nor invent records and
\* no reset, the counters a monitor can read satisfy, in every state of every
\* interleaving of the three workers, total_trades <= orders_generated <=
\* signals_processed <= dc_events_detected <= messages_processed, and
\* orders_generated = buy_signals + sell_signals
C40_CountersOrdered ==
    run = "counters" =>
        /\ ee.performance_metrics_.total_trades <= se.statistics_.orders_generated
        /\ se.statistics_.orders_generated <= se.statistics_.signals_processed
        /\ se.statistics_.signals_processed <= statistics.dc_events_detected
        /\ statistics.dc_events_detected <= statistics.messages_processed
        /\ se.statistics_.orders_generated
              = se.statistics_.buy_signals + se.statistics_.sell_signals

\* the stages whose latency statistics are kept
LatencyStages == {"md", "strategy", "execution"}

\* C31 (as stated): in each stage the first recorded latency sample becomes the
\* average, every later sample s replaces the average by 0.9 * average + 0.1 * s
\* truncated to an integer, and the maximum is the largest sample recorded so
\* far and never decreases
C31_LatencyLifetime ==
    [][\A k \in LatencyStages :
          /\ thr'[k].max >= thr[k].max
          /\ thr'[k].max = thr'[k].lifetimeLargest
          /\ thr'[k].lifetime = thr[k].lifetime + 1
                => thr'[k].avg = IF thr[k].lifetime = 0 THEN thr'.sample
                                 ELSE (9 * thr[k].avg + thr'.sample) \div 10]_vars

\* C31 (amended): the same, counted from the stage's construction or the last
\* resetPerformanceTracking: the first sample recorded since then becomes the
\* average, every later one replaces the average by 0.9 * average + 0.1 * s
\* truncated to an integer, the maximum is the largest sample recorded since
\* then, and it decreases in no step but a reset
C31_LatencySinceReset ==
    [][\A k \in LatencyStages :
          /\ thr'[k].processed > 0 => thr'[k].max >= thr[k].max
          /\ thr'[k].max = thr'[k].largest
          /\ thr'[k].recorded = thr[k].recorded + 1
                => thr'[k].avg = IF thr[k].recorded = 0 THEN thr'.sample
                                 ELSE (9 * thr[k].avg + thr'.sample) \div 10]_vars

\* C31 witness: after a sample and a reset the execution engine has recorded
\* the samples 7 and 15: the average is 7.8 truncated, the maximum 15
C31_Witness ==
    /\ run = "latency"
    /\ thr.execution.lifetime > thr.execution.recorded
    /\ thr.execution.recorded = 2
    /\ thr.execution.avg = 7
    /\ thr.execution.max = 15

----------------------------------------------------------------------------
(* Properties of the simplified detector *)

\* C37 (as stated): fed the same ticks with the same theta, the simplified
\* detector and the production detector report a DC event on exactly the same
\* ticks and with the same direction: after every tick isDCEvent() is true
\* exactly if processDataPoint returned an event, and then getIsUptrend() is
\* true exactly if the event is an upturn
C37_DetectorsAgree ==
    (run = "simple" /\ hist.nticks > 0) =>
        /\ thr.dcEventDetected = (ret.type # NONE)
        /\ thr.dcEventDetected => (thr.isUptrend = (ret.type = UPTURN))

----------------------------------------------------------------------------
(* Properties of the execution engine's locks *)

\* the thread t is inside a call and waits for no mutex, or for a free one
CanStep(t) ==
    /\ thr.pc[t] # "idle"
    /\ CASE t = "worker" /\ thr.pc[t] = "stored" /\ thr.execution[1].status = FILLED
                -> thr.performance_mutex_ = ""
         [] t = "reset" /\ thr.pc[t] = "called" -> thr.performance_mutex_ = ""
         [] t = "reset" /\ thr.pc[t] = "lock1" -> thr.trades_mutex_ = ""
         [] t = "metrics" /\ thr.pc[t] = "called" -> thr.performance_mutex_ = ""
         [] t = "history" /\ thr.pc[t] = "called" -> thr.trades_mutex_ = ""
         [] OTHER -> TRUE

\* C39: no interleaving of the worker's processOrder with calls of
\* resetPerformanceTracking, getPerformanceMetrics and getTradeHistory
\* deadlocks on trades_mutex_ and performance_mutex_: whenever some thread is
\* inside a call, some thread inside a call can take its next step; and when
\* every thread that can step eventually does, every call and every
\* processOrder eventually returns
C39_NoDeadlock ==
    /\ []((\E t \in DOMAIN thr.pc : thr.pc[t] # "idle")
             => \E t \in DOMAIN thr.pc : CanStep(t))
    /\ (thr.pc["worker"] # "idle") ~> (thr.pc["worker"] = "idle")
    /\ (thr.pc["reset"] # "idle") ~> (thr.pc["reset"] = "idle")
    /\ (thr.pc["metrics"] # "idle") ~> (thr.pc["metrics"] = "idle")
    /\ (thr.pc["history"] # "idle") ~> (thr.pc["history"] = "idle")

\* C39 witness: the reset holds performance_mutex_ and waits for trades_mutex_,
\* which the worker holds, while both readers wait
C39_Witness ==
    /\ run = "locks"
    /\ thr.pc["reset"] = "lock1"
    /\ thr.pc["worker"] = "trades"
    /\ thr.pc["metrics"] = "called"
    /\ thr.pc["history"] = "called"

====
